---- MODULE Spec2Model ----
(***************************************************************************)
(* The inference table and the unifier of chalk.                           *)
(*                                                                         *)
(*   InferenceTable  src/chalk-rust/src/solve/infer/table.rs               *)
(*   Unifier         src/chalk-solve/src/infer/unify.rs                    *)
(*                                                                         *)
(* The table is the union-find of inference variables (ena) plus the       *)
(* vector of stored values; the unifier is a recursive function over two   *)
(* terms that mutates the table and collects deferred goals.  One call of  *)
(* InferenceTable::relate is one step of the model.                        *)
(***************************************************************************)
EXTENDS Integers, Sequences, FiniteSets, TLC

\* Bounds of the model.
MaxVars == 4          \* inference variables the table may hold
MaxUniverse == 1      \* universes beyond the root
MaxSnapshots == 2     \* snapshots open at the same time
MaxCeiling == 4       \* universes that relate itself may open on top
MaxCallerVars == 2    \* variables a caller creates before it relates binders
MaxShapeVars == 1     \* variables a caller creates before it relates shapes
MaxThreads == 2       \* threads that share one ChalkDatabase handle
MaxSolves == 4        \* calls of solve and solve_multiple made on the handle

VARIABLES
    unify,          \* InferenceTable.unify: per variable its class and value
    values,         \* InferenceTable.values: the stored (bound) types
    kinds,          \* the kind each variable was handed out with (to_ty_with_kind)
    max_universe,   \* the highest universe created so far
    snapshots,      \* the open InferenceSnapshots, innermost last
    taken,          \* history: per open snapshot, the table when it was taken
    last,           \* the last call made on the table and what it returned
    program_text,   \* ChalkDatabase: the program text, a sequence of items
    tls,            \* the thread-local debug context and the calls that set it
    answer,         \* the last lookup made in the program and what it returned
    solver          \* ChalkDatabase: the solver's mutex and each thread's place in solve

\* the variables of the program database and of the debug context
facts == <<program_text, tls, answer, solver>>

vars == <<unify, values, kinds, max_universe, snapshots, taken, last,
          program_text, tls, answer, solver>>

Min(x, y) == IF x <= y THEN x ELSE y

----------------------------------------------------------------------------
(* Terms.  Every term is a record of the same shape, so that any two terms *)
(* can be compared.                                                        *)

Tm(k, id, ui, kind, name, args) ==
    [k |-> k, id |-> id, ui |-> ui, kind |-> kind, name |-> name, args |-> args]

\* Option::None of normalize_shallow
NoneTy == Tm("None", 0, 0, "", "", <<>>)

\* TyData::InferenceVar(var, kind)
InferenceVar(v, kind) == Tm("InferenceVar", v, 0, kind, "", <<>>)

\* TyData::Placeholder(PlaceholderIndex { ui, idx })
Placeholder(ui, idx) == Tm("Placeholder", idx, ui, "", "", <<>>)

\* TyData::Apply(ApplicationTy { name, substitution })
Apply(name, args) == Tm("Apply", 0, 0, "", name, args)

\* TyData::Alias(AliasTy)
Alias(name, args) == Tm("Alias", 0, 0, "", name, args)

\* TyData::Function(FnPointer { num_binders, abi, safety, variadic,
\* substitution }); name stands for abi, safety and variadic together
Function(num_binders, name, substitution) ==
    Tm("Function", num_binders, 0, "", name, substitution)

\* TyData::Dyn(DynTy { bounds, lifetime }) with the single bound
\* Implemented(trait_id); the lifetime is the only argument
Dyn(trait_id, lifetime) == Tm("Dyn", 0, 0, "", trait_id, <<lifetime>>)

\* LifetimeData::InferenceVar, ::Placeholder and ::BoundVar
LifetimeVar(v) == Tm("LifetimeVar", v, 0, "", "", <<>>)
LifetimePlaceholder(ui, idx) == Tm("LifetimePlaceholder", idx, ui, "", "", <<>>)
LifetimeBoundVar(index) == Tm("LifetimeBoundVar", index, 0, "", "", <<>>)

\* ConstData { ty, value } with value ConstValue::InferenceVar, ::Concrete
\* or ::Placeholder; the declared type is the only argument
ConstVar(v, ty) == Tm("Const", v, 0, "InferenceVar", "", <<ty>>)
ConstConcrete(c, ty) == Tm("Const", c, 0, "Concrete", "", <<ty>>)
ConstPlaceholder(ui, idx, ty) == Tm("Const", idx, ui, "Placeholder", "", <<ty>>)
ConstBoundVar(index, ty) == Tm("Const", index, 0, "BoundVar", "", <<ty>>)

IsLifetime(t) == t.k \in {"LifetimeVar", "LifetimePlaceholder", "LifetimeBoundVar"}
IsConst(t) == t.k = "Const"

\* InferenceValue::Unbound(ui) and InferenceValue::Bound(val)
Unbound(ui) == [bound |-> FALSE, ui |-> ui, val |-> 0]
Bound(val) == [bound |-> TRUE, ui |-> 0, val |-> val]

----------------------------------------------------------------------------
(* The union-find table (ena).  Entry v holds the representative of v's    *)
(* class (the least member) and the value of the class.                    *)

\* UnificationTable::new_key
new_key(t, value) == Append(t, [root |-> Len(t) + 1, value |-> value])

\* UnificationTable::probe_value
probe_value(t, v) == t[v].value

\* UnificationTable::unioned
unioned(t, a, b) == t[a].root = t[b].root

\* InferenceValue::unify_values: two unbound values keep the lesser universe,
\* a bound value wins over an unbound one.  (Two bound values panic: see
\* BothBound.)
unify_values(x, y) ==
    IF ~x.bound /\ ~y.bound THEN Unbound(Min(x.ui, y.ui))
    ELSE IF x.bound THEN x ELSE y

BothBound(x, y) == x.bound /\ y.bound

\* UnificationTable::unify_var_var: merge the classes of a and b
ena_unify_var_var(t, a, b) ==
    LET ra == t[a].root
        rb == t[b].root
        nv == unify_values(t[a].value, t[b].value)
    IN  IF ra = rb THEN t
        ELSE [v \in 1..Len(t) |->
                IF t[v].root \in {ra, rb}
                THEN [root |-> Min(ra, rb), value |-> nv]
                ELSE t[v]]

\* UnificationTable::unify_var_value: merge value into the class of a
ena_unify_var_value(t, a, value) ==
    LET nv == unify_values(t[a].value, value)
    IN  [v \in 1..Len(t) |->
            IF t[v].root = t[a].root THEN [t[v] EXCEPT !.value = nv] ELSE t[v]]

----------------------------------------------------------------------------
(* InferenceTable: the table as a record, so that the unifier can thread   *)
(* it through its recursion.                                               *)

Table(u, vs, ks) == [unify |-> u, values |-> vs, kinds |-> ks]

\* The open snapshots are a stack, innermost last: open is that stack.
Front(open) == SubSeq(open, 1, Len(open) - 1)
Innermost(open) == open[Len(open)]

\* InferenceTable::snapshot: a snapshot of the union-find and the length of
\* values; returns the stack with the new snapshot on it
snapshot(tbl, open) ==
    Append(open, [unify_snapshot |-> tbl.unify, values_len |-> Len(tbl.values)])

\* a rollback_to that closes the snapshot and keeps what was done since
rollback_to_keeps_changes(tbl, open) == [table |-> tbl, open |-> Front(open)]

\* InferenceTable::rollback_to the innermost snapshot: the union-find is put
\* back (and with it the variables made since), values is truncated
rollback_to(tbl, open) ==
    LET snap == Innermost(open)
    IN  [table |-> Table(snap.unify_snapshot,
                         SubSeq(tbl.values, 1, snap.values_len),
                         SubSeq(tbl.kinds, 1, Len(snap.unify_snapshot))),
         open |-> Front(open)]

\* a commit that makes the changes final for the enclosing snapshots too
commit_final(tbl, open) ==
    [table |-> tbl,
     open |-> [i \in 1..(Len(open) - 1) |->
                 [unify_snapshot |-> tbl.unify, values_len |-> Len(tbl.values)]]]

\* InferenceTable::commit of the innermost snapshot: the changes stay (the
\* enclosing snapshots can still undo them), the snapshot is closed
commit(tbl, open) == [table |-> tbl, open |-> Front(open)]

\* InferenceTable::normalize_shallow
normalize_shallow(tbl, leaf) ==
    IF leaf.k = "InferenceVar"
    THEN LET pv == probe_value(tbl.unify, leaf.id)
         IN  IF pv.bound THEN tbl.values[pv.val] ELSE NoneTy
    ELSE NoneTy

\* InferenceTable::normalize_lifetime_shallow
normalize_lifetime_shallow(tbl, leaf) ==
    IF leaf.k = "LifetimeVar"
    THEN LET pv == probe_value(tbl.unify, leaf.id)
         IN  IF pv.bound THEN tbl.values[pv.val] ELSE NoneTy
    ELSE NoneTy

\* InferenceTable::normalize_const_shallow
normalize_const_shallow(tbl, leaf) ==
    IF leaf.k = "Const" /\ leaf.kind = "InferenceVar"
    THEN LET pv == probe_value(tbl.unify, leaf.id)
         IN  IF pv.bound THEN tbl.values[pv.val] ELSE NoneTy
    ELSE NoneTy

----------------------------------------------------------------------------
(* Program facts the unifier reads.                                        *)

\* Ty::is_integer: the scalar integer types
is_integer(ty) == ty.k = "Apply" /\ ty.name = "I32"

\* Ty::is_float: the scalar float types
is_float(ty) == ty.k = "Apply" /\ ty.name = "F32"

\* UnificationDatabase::adt_variance: the declared variance of each parameter
adt_variance(name) ==
    CASE name = "Pair" -> <<"Covariant", "Invariant">>
      [] name = "Ref" -> <<"Covariant">>
      [] OTHER -> <<>>

\* Zip for FnSubst: the parameters contravariantly, the return type (last)
\* covariantly
fn_variance(n) == [i \in 1..n |-> IF i = n THEN "Covariant" ELSE "Contravariant"]

\* Variance::invert
invert(variance) ==
    CASE variance = "Covariant" -> "Contravariant"
      [] variance = "Contravariant" -> "Covariant"
      [] OTHER -> "Invariant"

\* Variance::xform
xform(variance, other) ==
    CASE variance = "Invariant" -> "Invariant"
      [] variance = "Covariant" -> other
      [] OTHER -> invert(other)

----------------------------------------------------------------------------
(* The Unifier: the table it borrows, the goals it has collected and how   *)
(* it stands: "Ok", "NoSolution" (an Err being propagated by ?), "panic",  *)
(* or "overflow" when the table would outgrow MaxVars or MaxCeiling.       *)

\* Unifier::new
UnifierNew(tbl) ==
    [unify |-> tbl.unify, values |-> tbl.values, kinds |-> tbl.kinds,
     max_universe |-> max_universe, goals |-> <<>>, res |-> "Ok"]

NoSolution(u) == [u EXCEPT !.res = "NoSolution"]
Panic(u) == [u EXCEPT !.res = "panic"]

Goal(g, a, b) == [g |-> g, a |-> a, b |-> b]

\* InferenceTable::new_universe, on the unifier's table
new_universe(u) ==
    IF u.res # "Ok" THEN u
    ELSE IF u.max_universe >= MaxCeiling THEN [u EXCEPT !.res = "overflow"]
    ELSE [u EXCEPT !.max_universe = @ + 1]

\* InferenceTable::new_variable, on the unifier's table
new_variable(u, ui, kind) ==
    IF u.res # "Ok" THEN u
    ELSE IF Len(u.unify) >= MaxVars THEN [u EXCEPT !.res = "overflow"]
    ELSE [u EXCEPT !.unify = new_key(@, Unbound(ui)), !.kinds = Append(@, kind)]

\* a unify_var_var whose class keeps the higher of the two universes
unify_var_var_keeps_higher(u, a, b) ==
    IF u.res # "Ok" THEN u
    ELSE LET x == probe_value(u.unify, a)
             y == probe_value(u.unify, b)
             t == ena_unify_var_var(u.unify, a, b)
         IN  IF x.bound \/ y.bound THEN [u EXCEPT !.unify = t]
             ELSE [u EXCEPT !.unify =
                     [v \in DOMAIN t |->
                        IF t[v].root = t[a].root
                        THEN [t[v] EXCEPT !.value = Unbound(x.ui + y.ui - Min(x.ui, y.ui))]
                        ELSE t[v]]]

\* a unify_var_var that records no union
unify_var_var_skipped(u, a, b) == u

\* Unifier::unify_var_var
unify_var_var(u, a, b) ==
    IF u.res # "Ok" THEN u
    ELSE IF ~unioned(u.unify, a, b)
            /\ BothBound(probe_value(u.unify, a), probe_value(u.unify, b))
    THEN Panic(u)
    ELSE [u EXCEPT !.unify = ena_unify_var_var(@, a, b)]

\* table.unify.unify_var_value(var, InferenceValue::Unbound(ui)): promotion
unify_var_unbound(u, var, ui) ==
    IF u.res # "Ok" THEN u
    ELSE [u EXCEPT !.unify = ena_unify_var_value(@, var, Unbound(ui))]

\* table.unify.unify_var_value(var, InferenceValue::from_ty(ty)).unwrap():
\* the type is stored in values and the class of var is bound to it
unify_var_ty_value(u, var, ty) ==
    IF u.res # "Ok" THEN u
    ELSE IF probe_value(u.unify, var).bound THEN Panic(u)
    ELSE [u EXCEPT !.values = Append(@, ty),
                   !.unify = ena_unify_var_value(@, var, Bound(Len(u.values) + 1))]

\* a unify_general_var_specific_ty that unions the two variables
unify_general_var_unioned(u, general_var, specific_ty) ==
    unify_var_var(u, general_var, specific_ty.id)

\* Unifier::unify_general_var_specific_ty
unify_general_var_specific_ty(u, general_var, specific_ty) ==
    unify_var_ty_value(u, general_var, specific_ty)

\* Unifier::push_subtype_goal
push_subtype_goal(u, a, b) ==
    IF u.res # "Ok" THEN u
    ELSE [u EXCEPT !.goals = Append(@, Goal("SubtypeGoal", a, b))]

\* self.goals.push(AliasEq { alias, ty })
push_alias_eq_goal(u, alias, ty) ==
    IF u.res # "Ok" THEN u
    ELSE [u EXCEPT !.goals = Append(@, Goal("AliasEq", alias, ty))]

\* Unifier::push_lifetime_eq_goals: a: b unless Contravariant, then b: a
\* unless Covariant
push_lifetime_eq_goals(u, variance, a, b) ==
    IF u.res # "Ok" THEN u
    ELSE [u EXCEPT !.goals =
            @ \o (IF variance \in {"Invariant", "Covariant"}
                  THEN <<Goal("LifetimeOutlives", a, b)>> ELSE <<>>)
              \o (IF variance \in {"Invariant", "Contravariant"}
                  THEN <<Goal("LifetimeOutlives", b, a)>> ELSE <<>>)]

----------------------------------------------------------------------------
(* OccursCheck: the folder that relate_var_ty runs over the type a         *)
(* variable is about to be bound to.  A fold returns the unifier and the   *)
(* folded term.                                                            *)

Folded(u, ty) == [u |-> u, ty |-> ty]

RECURSIVE fold_ty(_, _, _, _)
RECURSIVE fold_substitution(_, _, _, _, _)

\* a fold_free_placeholder_ty that lets every placeholder through
fold_free_placeholder_ty_unchecked(u, universe_index, ty) == Folded(u, ty)

\* OccursCheck::fold_free_placeholder_ty
fold_free_placeholder_ty(u, universe_index, ty) ==
    IF universe_index < ty.ui THEN Folded(NoSolution(u), ty) ELSE Folded(u, ty)

\* a fold_inference_ty that lets a variable of var's class through
fold_inference_ty_no_cycle(u, var, universe_index, ty) ==
    LET pv == probe_value(u.unify, ty.id)
    IN  IF pv.bound
        THEN fold_ty(u, var, universe_index, u.values[pv.val])
        ELSE IF universe_index < pv.ui
        THEN Folded(unify_var_unbound(u, ty.id, universe_index), ty)
        ELSE Folded(u, ty)

\* OccursCheck::fold_inference_ty
fold_inference_ty(u, var, universe_index, ty) ==
    LET pv == probe_value(u.unify, ty.id)
    IN  IF pv.bound
        THEN fold_ty(u, var, universe_index, u.values[pv.val])
        ELSE IF unioned(u.unify, ty.id, var) THEN Folded(NoSolution(u), ty)
        ELSE IF universe_index < pv.ui
        THEN Folded(unify_var_unbound(u, ty.id, universe_index), ty)
        ELSE Folded(u, ty)

\* a fold_free_placeholder_lifetime that keeps every placeholder
fold_free_placeholder_lifetime_kept(u, universe_index, lifetime) ==
    Folded(u, lifetime)

\* OccursCheck::fold_free_placeholder_lifetime: a placeholder out of scope
\* is replaced by a fresh variable 'x with the goals 'x: 'b and 'b: 'x
fold_free_placeholder_lifetime(u, universe_index, lifetime) ==
    IF universe_index < lifetime.ui
    THEN Folded(push_lifetime_eq_goals(
                    new_variable(u, universe_index, "Lifetime"), "Invariant",
                    LifetimeVar(Len(u.unify) + 1), lifetime),
                LifetimeVar(Len(u.unify) + 1))
    ELSE Folded(u, lifetime)

\* OccursCheck::fold_inference_lifetime
fold_inference_lifetime(u, var, universe_index, lifetime) ==
    LET pv == probe_value(u.unify, lifetime.id)
    IN  IF pv.bound
        THEN fold_ty(u, var, universe_index, u.values[pv.val])
        ELSE IF universe_index < pv.ui
        THEN Folded(unify_var_unbound(u, lifetime.id, universe_index), lifetime)
        ELSE Folded(u, lifetime)

\* Fold::fold_with for a term, dispatching to the folder's overrides; bound
\* variables under a binder and consts are left as they are
fold_ty(u, var, universe_index, ty) ==
    IF u.res # "Ok" THEN Folded(u, ty)
    ELSE CASE ty.k = "InferenceVar" -> fold_inference_ty(u, var, universe_index, ty)
           [] ty.k = "Placeholder" -> fold_free_placeholder_ty(u, universe_index, ty)
           [] ty.k = "LifetimeVar" ->
                fold_inference_lifetime(u, var, universe_index, ty)
           [] ty.k = "LifetimePlaceholder" ->
                fold_free_placeholder_lifetime(u, universe_index, ty)
           [] ty.k \in {"LifetimeBoundVar", "Const"} -> Folded(u, ty)
           [] OTHER ->
                LET r == fold_substitution(u, var, universe_index, ty.args, <<>>)
                IN  Folded(r.u, [ty EXCEPT !.args = r.ty])

\* Fold::fold_with for a substitution: the arguments in order, stopping at
\* the first error.  done holds the arguments folded so far.
fold_substitution(u, var, universe_index, substitution, done) ==
    IF u.res # "Ok" \/ Len(done) = Len(substitution) THEN Folded(u, done)
    ELSE LET r == fold_ty(u, var, universe_index, substitution[Len(done) + 1])
         IN  fold_substitution(r.u, var, universe_index, substitution,
                               Append(done, r.ty))

----------------------------------------------------------------------------
(* The relations.                                                          *)

\* a unify_lifetime_var that binds whatever the universes
unify_lifetime_var_always_binds(u, variance, a, b, var, value, value_ui) ==
    unify_var_ty_value(u, var, value)

\* a unify_lifetime_var that has no solution when the variable cannot see
\* the value
unify_lifetime_var_or_fail(u, variance, a, b, var, value, value_ui) ==
    IF probe_value(u.unify, var).ui >= value_ui
    THEN unify_var_ty_value(u, var, value)
    ELSE NoSolution(u)

\* Unifier::unify_lifetime_var: bind if the variable's universe can see the
\* value's, else leave it to the outlives goals
unify_lifetime_var(u, variance, a, b, var, value, value_ui) ==
    IF probe_value(u.unify, var).ui >= value_ui
    THEN unify_var_ty_value(u, var, value)
    ELSE push_lifetime_eq_goals(u, variance, a, b)

\* Unifier::relate_lifetime_lifetime
relate_lifetime_lifetime(u, variance, a0, b0) ==
    IF u.res # "Ok" THEN u
    ELSE
    LET tbl == Table(u.unify, u.values, u.kinds)
        n_a == normalize_lifetime_shallow(tbl, a0)
        n_b == normalize_lifetime_shallow(tbl, b0)
        a == IF n_a = NoneTy THEN a0 ELSE n_a
        b == IF n_b = NoneTy THEN b0 ELSE n_b
    IN  CASE a.k = "LifetimeVar" /\ b.k = "LifetimeVar" ->
                [u EXCEPT !.unify = ena_unify_var_var(@, a.id, b.id)]
          [] a.k = "LifetimeVar" /\ b.k = "LifetimePlaceholder" ->
                unify_lifetime_var(u, variance, a, b, a.id, b, b.ui)
          [] a.k = "LifetimePlaceholder" /\ b.k = "LifetimeVar" ->
                unify_lifetime_var(u, variance, a, b, b.id, a, a.ui)
          [] a.k = "LifetimePlaceholder" /\ b.k = "LifetimePlaceholder" ->
                IF a # b THEN push_lifetime_eq_goals(u, variance, a, b) ELSE u
          [] OTHER -> Panic(u)

\* Unifier::unify_var_const
unify_var_const(u, var, c) == unify_var_ty_value(u, var, c)

\* a zip of two placeholders that compares the universes only
zip_placeholder_any_slot(u, p1, p2) ==
    IF p1.ui = p2.ui THEN u ELSE NoSolution(u)

\* Zip for PlaceholderIndex
zip_placeholder(u, p1, p2) ==
    IF p1.ui = p2.ui /\ p1.id = p2.id THEN u ELSE NoSolution(u)

\* Unifier::relate_const_const, the match on the values of the two consts
\* a match on the two values that has no solution for a bound variable
relate_const_values_no_panic(u, a, b) ==
    IF "BoundVar" \in {a.kind, b.kind} THEN NoSolution(u) ELSE u

\* (u: the unifier after their types were related)
relate_const_values(u, a, b) ==
    IF u.res # "Ok" THEN u
    ELSE CASE a.kind = "InferenceVar" /\ b.kind = "InferenceVar" ->
                [u EXCEPT !.unify = ena_unify_var_var(@, a.id, b.id)]
           [] a.kind = "InferenceVar" /\ b.kind \in {"Concrete", "Placeholder"} ->
                unify_var_const(u, a.id, b)
           [] a.kind \in {"Concrete", "Placeholder"} /\ b.kind = "InferenceVar" ->
                unify_var_const(u, b.id, a)
           [] a.kind = "Placeholder" /\ b.kind = "Placeholder" ->
                zip_placeholder(u, a, b)
           [] a.kind = "Concrete" /\ b.kind = "Concrete" ->
                IF a.id = b.id THEN u ELSE NoSolution(u)
           [] a.kind = "BoundVar" \/ b.kind = "BoundVar" -> Panic(u)
           [] OTHER -> NoSolution(u)

\* instantiate_binders_*: the body with bound variable i replaced by
\* parameters[i]
RECURSIVE instantiate(_, _)
instantiate(ty, parameters) ==
    IF ty.k = "LifetimeBoundVar" THEN parameters[ty.id + 1]
    ELSE [ty EXCEPT !.args = [i \in 1..Len(ty.args) |->
                                instantiate(ty.args[i], parameters)]]

\* the variables bound by a binder: the lifetimes of a fn pointer, the
\* Self type of the bounds of a dyn type
binders_of(ty) ==
    IF ty.k = "Dyn" THEN <<"General">> ELSE [i \in 1..ty.id |-> "Lifetime"]

\* InferenceTable::instantiate_binders_universally: a new universe, and the
\* body over placeholders of that universe
universal_universe(u) == new_universe(u)

universal_body(u, ty) ==
    instantiate(ty, [i \in 1..ty.id |-> LifetimePlaceholder(u.max_universe, i - 1)])

\* InferenceTable::instantiate_binders_existentially: fresh variables in
\* max_universe, and the body over them
RECURSIVE existential_variables(_, _)
existential_variables(u, binders) ==
    IF binders = <<>> THEN u
    ELSE existential_variables(new_variable(u, u.max_universe, Head(binders)),
                               Tail(binders))

existential_body(u, ty) ==
    instantiate(ty, [i \in 1..ty.id |-> LifetimeVar(Len(u.unify) + i)])

RECURSIVE relate_ty_ty(_, _, _, _)
RECURSIVE relate_var_ty(_, _, _, _)
RECURSIVE relate_const_const(_, _, _, _)
RECURSIVE zip_with(_, _, _, _)
RECURSIVE generalize_substitution(_, _, _, _, _)
RECURSIVE zip_substitution(_, _, _, _, _, _)

\* a relate_alias_ty that equates the alias with the type under every variance
relate_alias_ty_eq_only(u, variance, alias, ty) == push_alias_eq_goal(u, alias, ty)

\* Unifier::relate_alias_ty
relate_alias_ty(u, variance, alias, ty) ==
    IF variance = "Invariant" THEN push_alias_eq_goal(u, alias, ty)
    ELSE LET var == InferenceVar(Len(u.unify) + 1, "General")
             u1 == new_variable(u, 0, "General")
             u2 == push_alias_eq_goal(u1, alias, var)
         IN  IF u2.res # "Ok" THEN u2 ELSE relate_ty_ty(u2, variance, var, ty)

\* Unifier::generalize_generic_var: a fresh variable of the argument's sort,
\* related with the argument under the variance handed in
generalize_generic_var(u, variance, sub_var, universe_index) ==
    CASE IsLifetime(sub_var) ->
            Folded(relate_lifetime_lifetime(
                        new_variable(u, universe_index, "Lifetime"), variance,
                        sub_var, LifetimeVar(Len(u.unify) + 1)),
                   LifetimeVar(Len(u.unify) + 1))
      [] IsConst(sub_var) ->
            Folded(relate_const_const(
                        new_variable(u, universe_index, "Const"), variance,
                        sub_var, ConstVar(Len(u.unify) + 1, sub_var.args[1])),
                   ConstVar(Len(u.unify) + 1, sub_var.args[1]))
      [] OTHER ->
            Folded(relate_ty_ty(
                        new_variable(u, universe_index, "General"), variance,
                        sub_var, InferenceVar(Len(u.unify) + 1, "General")),
                   InferenceVar(Len(u.unify) + 1, "General"))

\* Unifier::generalize_substitution: the arguments in order, stopping at the
\* first error.  done holds the fresh variables made so far.
generalize_rest(r, variance, substitution, universe_index, done) ==
    generalize_substitution(r.u, variance, substitution, universe_index,
                            Append(done, r.ty))

generalize_substitution(u, variance, substitution, universe_index, done) ==
    IF u.res # "Ok" \/ Len(done) = Len(substitution) THEN Folded(u, done)
    ELSE generalize_rest(
            generalize_generic_var(u, variance, substitution[Len(done) + 1],
                                   universe_index),
            variance, substitution, universe_index, done)

\* Unifier::relate_var_ty, its end: var is bound to the generalized type
\* (g: the unifier after generalization, with the fresh arguments)
bind_generalized(g, var, name) ==
    unify_var_ty_value(g.u, var, Apply(name, g.ty))

bind_generalized_fn(g, var, fn_ptr) ==
    unify_var_ty_value(g.u, var, Function(fn_ptr.id, fn_ptr.name, g.ty))

\* Unifier::relate_var_ty after the occurs check (f: the unifier after the
\* fold, with the folded type ty1): generalize ty1, then bind var
generalize_and_bind(f, variance, var, universe_index) ==
    IF f.u.res # "Ok" THEN f.u
    ELSE CASE f.ty.k = "Apply" ->
                bind_generalized(
                    generalize_substitution(f.u, variance, f.ty.args,
                                            universe_index, <<>>),
                    var, f.ty.name)
           [] f.ty.k = "Function" ->
                bind_generalized_fn(
                    generalize_substitution(f.u, variance, f.ty.args,
                                            universe_index, <<>>),
                    var, f.ty)
           [] f.ty.k = "Dyn" ->
                unify_var_ty_value(
                    new_variable(f.u, universe_index, "Lifetime"), var,
                    Dyn(f.ty.name, LifetimeVar(Len(f.u.unify) + 1)))
           [] f.ty.k = "Placeholder" -> unify_var_ty_value(f.u, var, f.ty)
           [] OTHER -> Panic(f.u)

\* a relate_var_ty that runs the occurs check and binds nothing
relate_var_ty_checks_only(u, variance, var, ty) ==
    fold_ty(u, var, u.max_universe, ty).u

\* Unifier::relate_var_ty: the universe is the table's max_universe
relate_var_ty(u, variance, var, ty) ==
    generalize_and_bind(fold_ty(u, var, u.max_universe, ty), variance, var,
                        u.max_universe)

\* a zip of two substitutions that starts with the last argument
RECURSIVE zip_substitution_last_first(_, _, _, _, _, _)
zip_substitution_last_first(u, variance, declared, a, b, i) ==
    IF u.res # "Ok" \/ i > Len(a) THEN u
    ELSE zip_substitution_last_first(
            zip_with(u, xform(variance, declared[Len(a) + 1 - i]),
                     a[Len(a) + 1 - i], b[Len(a) + 1 - i]),
            variance, declared, a, b, i + 1)

\* Zip for ApplicationTy: the names, then the substitutions argument by
\* argument, each under the variance its parameter is declared with
zip_substitution(u, variance, declared, a, b, i) ==
    IF u.res # "Ok" \/ i > Len(a) THEN u
    ELSE zip_substitution(
            zip_with(u, xform(variance, declared[i]), a[i], b[i]),
            variance, declared, a, b, i + 1)

\* Zip for GenericArg: types, lifetimes and consts each to their relation
zip_with(u, variance, a, b) ==
    CASE IsLifetime(a) /\ IsLifetime(b) -> relate_lifetime_lifetime(u, variance, a, b)
      [] IsConst(a) /\ IsConst(b) -> relate_const_const(u, variance, a, b)
      [] IsLifetime(a) \/ IsLifetime(b) \/ IsConst(a) \/ IsConst(b) -> NoSolution(u)
      [] OTHER -> relate_ty_ty(u, variance, a, b)

zip_apply(u, variance, apply1, apply2) ==
    IF apply1.name # apply2.name THEN NoSolution(u)
    ELSE zip_substitution(u, variance, adt_variance(apply1.name),
                          apply1.args, apply2.args, 1)

\* Zip for the bodies of two instantiated binders: the FnSubst of two fn
\* pointers, the trait of the bound of two dyn types
zip_body(u, variance, a, b) ==
    IF a.k = "Dyn"
    THEN IF u.res = "Ok" /\ a.name # b.name THEN NoSolution(u) ELSE u
    ELSE IF Len(a.args) # Len(b.args) THEN NoSolution(u)
    ELSE zip_substitution(u, variance, fn_variance(Len(a.args)), a.args, b.args, 1)

\* Unifier::relate_binders, first block: a universally, b existentially
\* (u: the unifier after the new universe was opened)
binders_universal_existential(u, variance, a, b) ==
    zip_body(existential_variables(u, binders_of(b)), variance,
             universal_body(u, a), existential_body(u, b))

\* Unifier::relate_binders, second block: b universally, a existentially;
\* not reached when the first block returned an error
binders_existential_universal(u, variance, a, b) ==
    zip_body(existential_variables(u, binders_of(a)), variance,
             existential_body(u, a), universal_body(u, b))

binders_second(u, variance, a, b) ==
    IF u.res # "Ok" THEN u
    ELSE binders_existential_universal(universal_universe(u), variance, a, b)

\* a relate_binders that stops after its first block
relate_binders_first_only(u, variance, a, b) ==
    binders_universal_existential(universal_universe(u), variance, a, b)

\* a relate_binders whose universes the table does not count
relate_binders_uncounted(u, variance, a, b) ==
    [binders_second(
        binders_universal_existential(universal_universe(u), variance, a, b),
        variance, a, b) EXCEPT !.max_universe = u.max_universe]

\* Unifier::relate_binders
relate_binders(u, variance, a, b) ==
    binders_second(
        binders_universal_existential(universal_universe(u), variance, a, b),
        variance, a, b)

\* Zip for DynTy: the bounds, then the lifetime
zip_dyn(u, variance, a, b) ==
    relate_lifetime_lifetime(relate_binders(u, variance, a, b), variance,
                             a.args[1], b.args[1])

\* Unifier::relate_const_const: the declared types under the variance handed
\* in, then the values
relate_const_const(u, variance, a0, b0) ==
    IF u.res # "Ok" THEN u
    ELSE
    LET tbl == Table(u.unify, u.values, u.kinds)
        n_a == normalize_const_shallow(tbl, a0)
        n_b == normalize_const_shallow(tbl, b0)
        a == IF n_a = NoneTy THEN a0 ELSE n_a
        b == IF n_b = NoneTy THEN b0 ELSE n_b
    IN  relate_const_values(relate_ty_ty(u, variance, a.args[1], b.args[1]), a, b)

\* a match on the kind that lets an Integer variable unify with every type
kind_unifies_any_integer(kind, ty) ==
    \/ kind \in {"General", "Integer"}
    \/ kind = "Float" /\ is_float(ty)

\* the match on (kind, ty.is_integer(), ty.is_float()) in relate_ty_ty: a
\* General variable unifies with any type, an Integer variable with integer
\* types, a Float variable with float types
kind_unifies(kind, ty) ==
    \/ kind = "General"
    \/ kind = "Integer" /\ is_integer(ty)
    \/ kind = "Float" /\ is_float(ty)

\* Unifier::relate_ty_ty
relate_ty_ty(u, variance, a0, b0) ==
    IF u.res # "Ok" THEN u
    ELSE
    LET tbl == Table(u.unify, u.values, u.kinds)
        n_a == normalize_shallow(tbl, a0)
        n_b == normalize_shallow(tbl, b0)
        a == IF n_a = NoneTy THEN a0 ELSE n_a
        b == IF n_b = NoneTy THEN b0 ELSE n_b
        concrete == {"Apply", "Placeholder", "Dyn", "Function"}
    IN  CASE a.k = "InferenceVar" /\ b.k = "InferenceVar" ->
                CASE variance = "Invariant" ->
                        IF a.kind = b.kind THEN unify_var_var(u, a.id, b.id)
                        ELSE IF a.kind = "General"
                        THEN unify_general_var_specific_ty(u, a.id, b)
                        ELSE IF b.kind = "General"
                        THEN unify_general_var_specific_ty(u, b.id, a)
                        ELSE NoSolution(u)
                  [] variance = "Covariant" -> push_subtype_goal(u, a, b)
                  [] OTHER -> push_subtype_goal(u, b, a)
          [] (a.k = "InferenceVar" /\ b.k \in concrete)
             \/ (a.k \in concrete /\ b.k = "InferenceVar") ->
                LET var == IF a.k = "InferenceVar" THEN a ELSE b
                    ty == IF a.k = "InferenceVar" THEN b ELSE a
                IN  IF kind_unifies(var.kind, ty)
                    THEN relate_var_ty(u, variance, var.id, ty)
                    ELSE NoSolution(u)
          [] a.k = "Placeholder" /\ b.k = "Placeholder" -> zip_placeholder(u, a, b)
          [] a.k = "Apply" /\ b.k = "Apply" -> zip_apply(u, variance, a, b)
          [] a.k = "Function" /\ b.k = "Function" ->
                IF a.name = b.name THEN relate_binders(u, variance, a, b)
                ELSE NoSolution(u)
          [] a.k = "Dyn" /\ b.k = "Dyn" -> zip_dyn(u, variance, a, b)
          [] a.k \in concrete /\ b.k \in concrete /\ a.k # b.k -> NoSolution(u)
          [] (a.k \in concrete \/ a.k = "InferenceVar") /\ b.k = "Alias" ->
                relate_alias_ty(u, invert(variance), b, a)
          [] a.k = "Alias" /\ (b.k \in concrete \/ b.k \in {"InferenceVar", "Alias"}) ->
                relate_alias_ty(u, variance, a, b)
          [] OTHER -> Panic(u)

\* Unifier::relate: the goals are handed over on success only
RelationResult(r) == IF r.res = "Ok" THEN r ELSE [r EXCEPT !.goals = <<>>]

UnifierRelate(u, variance, a, b) == RelationResult(zip_with(u, variance, a, b))

\* a relate that commits whatever the unifier returns
commit_whatever(tbl, open, r) ==
    [table |-> Table(r.unify, r.values, r.kinds), open |-> open,
     max_universe |-> r.max_universe, res |-> r.res, goals |-> r.goals,
     touched |-> Table(r.unify, r.values, r.kinds) # tbl]

relate_always_commits(tbl, open, variance, a, b) ==
    commit_whatever(tbl, open, UnifierRelate(UnifierNew(tbl), variance, a, b))

\* InferenceTable::relate: snapshot, run the unifier, commit or roll back.
\* Returns the table afterwards with the Result (res, goals); touched tells
\* whether the unifier had changed the table when it returned.
commit_or_rollback(tbl, opened, r) ==
    LET after == Table(r.unify, r.values, r.kinds)
        closed == IF r.res = "Ok" THEN commit(after, opened)
                  ELSE IF r.res = "NoSolution" THEN rollback_to(after, opened)
                  ELSE [table |-> after, open |-> opened]
    IN  [table |-> closed.table, open |-> closed.open,
         max_universe |-> r.max_universe,
         res |-> r.res, goals |-> r.goals, touched |-> after # tbl]

InferenceTableRelate(tbl, open, variance, a, b) ==
    commit_or_rollback(tbl, snapshot(tbl, open),
                       UnifierRelate(UnifierNew(tbl), variance, a, b))

----------------------------------------------------------------------------
(* The unifier of chalk-rust (table.rs), on the same table: Ty::Var is an  *)
(* inference variable, Ty::Apply an applied type, Ty::Projection an alias; *)
(* normalizations are kept in goals.                                       *)

\* panic!("`unify_var_apply` invoked on bound var")
InvokedOnBoundVar == "panic: unify_var_apply invoked on bound var"

\* unreachable!("expected `arg` to be normalized")
ExpectedNormalized == "panic: expected arg to be normalized"

\* panic!("unimplemented: projection {:?}", proj)
UnimplementedProjection == "panic: unimplemented: projection"

Abort(u, message) == [u EXCEPT !.res = message]

\* ItemId::universe_index, ApplicationTy::universe_index
universe_index(apply) == 0

\* Unifier::universe_check
universe_check(u, ui, application_universe_index) ==
    IF u.res # "Ok" THEN u
    ELSE IF ui < application_universe_index THEN NoSolution(u)
    ELSE u

RECURSIVE occurs_check_apply(_, _, _, _, _)

\* an occurs_check_arg that leaves every variable in its universe
RECURSIVE occurs_check_arg_unpromoted(_, _, _, _)
occurs_check_arg_unpromoted(u, var, ui, arg) ==
    IF u.res # "Ok" THEN u
    ELSE IF normalize_shallow(u, arg) # NoneTy
    THEN occurs_check_arg_unpromoted(u, var, ui, normalize_shallow(u, arg))
    ELSE CASE arg.k = "Apply" ->
                occurs_check_apply(universe_check(u, ui, universe_index(arg)),
                                   var, ui, arg.args, 1)
           [] arg.k = "InferenceVar" ->
                IF unioned(u.unify, arg.id, var) THEN NoSolution(u) ELSE u
           [] arg.k = "Alias" -> Abort(u, UnimplementedProjection)

\* Unifier::occurs_check_arg
RECURSIVE occurs_check_arg(_, _, _, _)
occurs_check_arg(u, var, ui, arg) ==
    IF u.res # "Ok" THEN u
    ELSE IF normalize_shallow(u, arg) # NoneTy
    THEN occurs_check_arg(u, var, ui, normalize_shallow(u, arg))
    ELSE CASE arg.k = "Apply" ->
                occurs_check_apply(universe_check(u, ui, universe_index(arg)),
                                   var, ui, arg.args, 1)
           [] arg.k = "InferenceVar" ->
                IF probe_value(u.unify, arg.id).bound
                THEN Abort(u, ExpectedNormalized)
                ELSE IF unioned(u.unify, arg.id, var) THEN NoSolution(u)
                ELSE IF ui < probe_value(u.unify, arg.id).ui
                THEN unify_var_unbound(u, arg.id, ui)
                ELSE u
           [] arg.k = "Alias" -> Abort(u, UnimplementedProjection)

\* Unifier::occurs_check_apply: the arguments from args[i] on
occurs_check_apply(u, var, ui, args, i) ==
    IF u.res # "Ok" \/ i > Len(args) THEN u
    ELSE occurs_check_apply(occurs_check_arg(u, var, ui, args[i]),
                            var, ui, args, i + 1)

\* Unifier::unify_var_apply: the universe and occurs checks; this unifier
\* stores no value for var
unify_var_apply(u, var, apply) ==
    IF u.res # "Ok" THEN u
    ELSE IF probe_value(u.unify, var).bound THEN Abort(u, InvokedOnBoundVar)
    ELSE occurs_check_apply(
            universe_check(u, probe_value(u.unify, var).ui, universe_index(apply)),
            var, probe_value(u.unify, var).ui, apply.args, 1)

\* a unify_ty_ty that matches on the two types as they are handed in
RECURSIVE unify_ty_ty_as_given(_, _, _)
RECURSIVE unify_apply_apply_as_given(_, _, _, _)
unify_ty_ty_as_given(u, a, b) ==
    IF u.res # "Ok" THEN u
    ELSE CASE a.k = "InferenceVar" /\ b.k = "InferenceVar" ->
                unify_var_var(u, a.id, b.id)
           [] a.k = "InferenceVar" /\ b.k = "Apply" -> unify_var_apply(u, a.id, b)
           [] a.k = "Apply" /\ b.k = "InferenceVar" -> unify_var_apply(u, b.id, a)
           [] a.k = "Apply" /\ b.k = "Apply" ->
                unify_apply_apply_as_given(u, a, b, 1)
           [] OTHER -> u

unify_apply_apply_as_given(u, apply1, apply2, i) ==
    IF u.res # "Ok" THEN u
    ELSE IF apply1.name # apply2.name THEN NoSolution(u)
    ELSE IF i > Len(apply1.args) THEN u
    ELSE unify_apply_apply_as_given(
            unify_ty_ty_as_given(u, apply1.args[i], apply2.args[i]),
            apply1, apply2, i + 1)

RECURSIVE unify_apply_apply(_, _, _, _)

\* Unifier::unify_ty_ty
RECURSIVE unify_ty_ty(_, _, _)
unify_ty_ty(u, a, b) ==
    IF u.res # "Ok" THEN u
    ELSE IF normalize_shallow(u, a) # NoneTy
    THEN unify_ty_ty(u, normalize_shallow(u, a), b)
    ELSE IF normalize_shallow(u, b) # NoneTy
    THEN unify_ty_ty(u, a, normalize_shallow(u, b))
    ELSE CASE a.k = "InferenceVar" /\ b.k = "InferenceVar" ->
                [u EXCEPT !.unify = ena_unify_var_var(@, a.id, b.id)]
           [] a.k = "InferenceVar" /\ b.k = "Apply" -> unify_var_apply(u, a.id, b)
           [] a.k = "Apply" /\ b.k = "InferenceVar" -> unify_var_apply(u, b.id, a)
           [] a.k = "Apply" /\ b.k = "Apply" -> unify_apply_apply(u, a, b, 1)
           [] b.k = "Alias" ->
                [u EXCEPT !.goals = Append(@, Goal("NormalizeTo", b, a))]
           [] a.k = "Alias" ->
                [u EXCEPT !.goals = Append(@, Goal("NormalizeTo", a, b))]

\* Unifier::unify_apply_apply: the ids, then the arguments from args[i] on
unify_apply_apply(u, apply1, apply2, i) ==
    IF u.res # "Ok" THEN u
    ELSE IF apply1.name # apply2.name THEN NoSolution(u)
    ELSE IF i > Len(apply1.args) THEN u
    ELSE unify_apply_apply(unify_ty_ty(u, apply1.args[i], apply2.args[i]),
                           apply1, apply2, i + 1)

----------------------------------------------------------------------------
(* The terms a caller can hand to relate in the current state.             *)

Variances == {"Invariant", "Covariant", "Contravariant"}

\* the type variables of the table, each with the kind it was created with
VarTys ==
    {InferenceVar(v, kinds[v]) :
        v \in {w \in 1..Len(unify) : kinds[w] \in {"General", "Integer", "Float"}}}

\* the lifetime variables of the table
LifetimeVars == {LifetimeVar(v) : v \in {w \in 1..Len(unify) : kinds[w] = "Lifetime"}}

\* the lifetime placeholders of the universes the caller created
LifetimePlaceholders ==
    {LifetimePlaceholder(ui, 0) : ui \in 1..Min(max_universe, MaxUniverse)}

Lifetimes == LifetimeVars \cup LifetimePlaceholders

\* the placeholders of the universes created so far (the root has none)
PlaceholderTys == {Placeholder(ui, 0) : ui \in 1..max_universe}

ScalarTys == {Apply("I32", <<>>), Apply("S", <<>>)}

LeafTys == VarTys \cup PlaceholderTys \cup ScalarTys

\* Pair<x, y>: a variable or S first, a scalar second
PairTys == {Apply("Pair", <<x, y>>) : x \in VarTys \cup {Apply("S", <<>>)},
                                      y \in ScalarTys}

\* what the structural specification relates: a variable with anything, or
\* two pairs
StructInputs ==
    (VarTys \X (VarTys \cup ScalarTys \cup PairTys)) \cup (PairTys \X PairTys)

\* &'l S
Ref(lifetime) == Apply("Ref", <<lifetime>>)

\* for<'a> fn() -> &'a S
ForAllFn == Function(1, "Rust", <<Ref(LifetimeBoundVar(0))>>)

\* fn pointers: for<'a> fn() -> &'a S, fn() -> &'l S for the lifetimes at
\* hand, fn() -> S, fn() -> i32 and extern "C" fn() -> S
FnTys ==
    {ForAllFn} \cup {Function(0, "Rust", <<Ref(l)>>) : l \in Lifetimes}
    \cup {Function(0, abi, <<Apply("S", <<>>)>>) : abi \in {"Rust", "C"}}
    \cup {Function(0, "Rust", <<Apply("I32", <<>>)>>)}

\* dyn Tr + 'l and dyn Other + 'l
DynTys == {Dyn(trait_id, l) : trait_id \in {"Tr", "Other"}, l \in Lifetimes}

\* what the binder specification relates: a type variable with a fn pointer,
\* two fn pointers
BinderInputs == (VarTys \X FnTys) \cup (FnTys \X FnTys)

\* &'l S for the lifetimes at hand
RefTys == {Ref(l) : l \in Lifetimes}

\* what the dyn specification relates: a type variable with a dyn type or a
\* reference, two dyn types
DynInputs == (VarTys \X (DynTys \cup RefTys)) \cup (DynTys \X DynTys)

\* <x as Trait>::Item for a type variable or S
AliasTys == {Alias("Item", <<x>>) : x \in VarTys \cup {Apply("S", <<>>)}}

\* what the alias specification relates: an alias on either side of a leaf
\* type, a pair or another alias
AliasInputs ==
    (AliasTys \X (LeafTys \cup PairTys \cup AliasTys))
    \cup ((LeafTys \cup PairTys) \X AliasTys)

\* the const variables of the table and the concrete consts 1 and 2, each
\* with a declared type: a type variable or a scalar
ConstTys ==
    {ConstVar(v, ty) : v \in {w \in 1..Len(unify) : kinds[w] = "Const"},
                       ty \in VarTys \cup ScalarTys}
    \cup {ConstConcrete(c, ty) : c \in 1..2, ty \in VarTys \cup ScalarTys}

\* types of every shape but variables and aliases: i32, f32, S, two
\* placeholders in every universe, dyn Tr + 'l for the lifetime placeholders
\* at hand, fn() -> S and extern "C" fn() -> S
ShapeTys ==
    ScalarTys \cup {Apply("F32", <<>>)}
    \cup {Placeholder(ui, idx) : ui \in 1..max_universe, idx \in 0..1}
    \cup {Dyn("Tr", l) : l \in LifetimePlaceholders}
    \cup {Function(0, abi, <<Apply("S", <<>>)>>) : abi \in {"Rust", "C"}}

\* types with a placeholder of a universe that the table has not created:
\* the placeholder itself and Pair<x, placeholder> for a variable or S
UnscopedTys ==
    {Placeholder(max_universe + 1, 0)}
    \cup {Apply("Pair", <<x, Placeholder(max_universe + 1, 0)>>) :
            x \in VarTys \cup {Apply("S", <<>>)}}

\* &'p T for the lifetime placeholders of the universes of the table and of
\* the first universe that the table has not created
PlaceholderRefTys ==
    {Ref(LifetimePlaceholder(ui, 0)) : ui \in 1..(max_universe + 1)}

\* what the shape specification relates: a variable with a type of any
\* shape, two types of any shape; the dyn types, which open universes when
\* they are related, are left to the dyn specification
ShapeInputs ==
    LET tys == {t \in ShapeTys : t.k # "Dyn"}
    IN  (VarTys \X tys) \cup (tys \X tys) \cup (VarTys \X UnscopedTys)
        \cup (VarTys \X PlaceholderRefTys)

\* the arguments of the pairs below: the variables the caller created, the
\* alias <S as Trait>::Item and S
OrderArgs ==
    {x \in VarTys : x.id <= MaxCallerVars}
    \cup {Alias("Item", <<Apply("S", <<>>)>>), Apply("S", <<>>)}

\* Pair<x, y> over these
OrderTys == {Apply("Pair", <<x, y>>) : x \in OrderArgs, y \in OrderArgs}

----------------------------------------------------------------------------
(* The state machine.                                                      *)

table == Table(unify, values, kinds)

\* the value a probe of v resolves to: the universe of an unbound variable,
\* the stored type of a bound one
Probe(tbl, v) ==
    LET pv == probe_value(tbl.unify, v)
    IN  IF pv.bound THEN [bound |-> TRUE, ui |-> 0, ty |-> tbl.values[pv.val]]
        ELSE [bound |-> FALSE, ui |-> pv.ui, ty |-> NoneTy]

Call(op, res, note) == [op |-> op, res |-> res, note |-> note]

\* tls.rs: no program is set (PROGRAM is None); no call of
\* set_current_program is running, none has ended, nothing unwinds
NoContext ==
    [program |-> <<>>, set |-> FALSE, saved |-> <<>>, unwinding |-> FALSE,
     left |-> <<>>]

\* Arc<Mutex<Solver>> of a new handle: nobody holds the lock (holder 0), the
\* mutex is not poisoned and no thread is in a call
NoSolve ==
    [lock |-> 0, poisoned |-> FALSE, calls |-> 0,
     at |-> [t \in 1..MaxThreads |-> "out"],
     op |-> [t \in 1..MaxThreads |-> "none"]]

\* no lookup has been made yet
NoAnswer == [op |-> "none", arg |-> <<>>, res |-> "Ok", val |-> <<>>]

Init ==
    /\ unify = <<>>
    /\ values = <<>>
    /\ kinds = <<>>
    /\ max_universe = 0
    /\ snapshots = <<>>
    /\ taken = <<>>
    /\ last = Call("new", "Ok", {})
    /\ program_text = <<>>
    /\ tls = NoContext
    /\ answer = NoAnswer
    /\ solver = NoSolve

\* a panic ends the solve
Running == last.res # "panic"

SetTable(tbl) ==
    /\ unify' = tbl.unify
    /\ values' = tbl.values
    /\ kinds' = tbl.kinds

\* InferenceTable::new_variable
NewVariable(ui, kind) ==
    /\ Running
    /\ Len(unify) < MaxVars
    /\ unify' = new_key(unify, Unbound(ui))
    /\ kinds' = Append(kinds, kind)
    /\ last' = Call("new_variable", "Ok", {})
    /\ UNCHANGED <<facts, values, max_universe, snapshots, taken>>

\* InferenceTable::new_universe
NewUniverse ==
    /\ Running
    /\ max_universe < MaxUniverse
    /\ max_universe' = max_universe + 1
    /\ last' = Call("new_universe", "Ok", {})
    /\ UNCHANGED <<facts, unify, values, kinds, snapshots, taken>>

\* InferenceTable::snapshot
Snapshot ==
    /\ Running
    /\ Len(snapshots) < MaxSnapshots
    /\ snapshots' = snapshot(table, snapshots)
    /\ taken' = Append(taken, [table |-> table, inner |-> FALSE])
    /\ last' = Call("snapshot", "Ok", {})
    /\ UNCHANGED <<facts, unify, values, kinds, max_universe>>

\* a commit that discards what was done since the snapshot
CommitDiscards ==
    /\ Running
    /\ Len(snapshots) > 0
    /\ SetTable(rollback_to(table, snapshots).table)
    /\ snapshots' = Front(snapshots)
    /\ taken' = Front(taken)
    /\ last' = Call("commit", "Ok", {})
    /\ UNCHANGED <<facts, max_universe>>

\* InferenceTable::commit of the innermost open snapshot.  The history of
\* the enclosing snapshot notes that changes were committed inside it.
Commit ==
    LET n == Len(snapshots)
    IN  /\ Running
        /\ n > 0
        /\ SetTable(commit(table, snapshots).table)
        /\ snapshots' = commit(table, snapshots).open
        /\ taken' = [i \in 1..(n - 1) |->
                        IF i = n - 1
                        THEN [taken[i] EXCEPT !.inner =
                                @ \/ taken[n].inner \/ table # taken[n].table]
                        ELSE taken[i]]
        /\ last' = Call("commit", "Ok", {})
        /\ UNCHANGED <<facts, max_universe>>

\* a variable of tbl1 probes differently in tbl2
Undone(tbl1, tbl2) ==
    \E v \in 1..Len(tbl1.unify) :
        v > Len(tbl2.unify) \/ Probe(tbl2, v) # Probe(tbl1, v)

\* InferenceTable::rollback_to of the innermost open snapshot
RollbackTo ==
    LET n == Len(snapshots)
    IN  /\ Running
        /\ n > 0
        /\ SetTable(rollback_to(table, snapshots).table)
        /\ snapshots' = rollback_to(table, snapshots).open
        /\ taken' = SubSeq(taken, 1, n - 1)
        /\ last' = Call("rollback_to", "Ok",
                        {"undone" : x \in {1} \cap
                            {IF Undone(taken[n].table, table) THEN 1 ELSE 0}}
                        \cup {"inner" : x \in {1} \cap
                            {IF taken[n].inner THEN 1 ELSE 0}})
        /\ UNCHANGED <<facts, max_universe>>

\* some variable's recorded universe is lower in tbl2 than in tbl1
Lowered(tbl1, tbl2) ==
    \E v \in 1..Min(Len(tbl1.unify), Len(tbl2.unify)) :
        /\ ~tbl1.unify[v].value.bound
        /\ ~tbl2.unify[v].value.bound
        /\ tbl2.unify[v].value.ui < tbl1.unify[v].value.ui

\* The unbound variables and the placeholders that ty holds once every
\* bound variable in it is replaced by its value (to depth fuel).
RECURSIVE Leaves(_, _, _)
Leaves(tbl, ty, fuel) ==
    IF ty.k = "InferenceVar"
    THEN LET pv == probe_value(tbl.unify, ty.id)
         IN  IF pv.bound /\ fuel > 0
             THEN Leaves(tbl, tbl.values[pv.val], fuel - 1)
             ELSE {ty}
    ELSE IF ty.k = "Placeholder" THEN {ty}
    ELSE UNION {Leaves(tbl, ty.args[i], fuel) : i \in 1..Len(ty.args)}

\* var is an unbound variable and ty, a type that is no variable, holds a
\* variable of var's class
OccursIn(tbl, var, ty) ==
    /\ var.k = "InferenceVar"
    /\ ~probe_value(tbl.unify, var.id).bound
    /\ ty.k \in {"Apply", "Placeholder"}
    /\ \E l \in Leaves(tbl, ty, Len(tbl.values)) :
          l.k = "InferenceVar" /\ unioned(tbl.unify, l.id, var.id)

\* ty holds, once its bound variables are replaced by their values, a type
\* placeholder of a universe beyond max_universe
Unscoped(tbl, ty) ==
    \E l \in Leaves(tbl, ty, Len(tbl.values)) :
        l.k = "Placeholder" /\ l.ui > max_universe

\* the table takes what relate(a, b) returned (r), and the call is recorded
Returned(a, b, r) ==
    /\ r.res # "overflow"
    /\ SetTable(r.table)
    /\ snapshots' = r.open
    /\ max_universe' = r.max_universe
    /\ last' = Call("relate", r.res,
                 {"touched" : x \in {1} \cap {IF r.touched THEN 1 ELSE 0}}
                 \cup {"opened" : x \in {1} \cap
                     {IF max_universe < r.max_universe THEN 1 ELSE 0}}
                 \cup {"lowered" : x \in {1} \cap
                     {IF Lowered(table, r.table) THEN 1 ELSE 0}}
                 \cup {"goals" : x \in {1} \cap
                     {IF r.goals # <<>> THEN 1 ELSE 0}}
                 \cup {"occurs" : x \in {1} \cap
                     {IF OccursIn(table, a, b) \/ OccursIn(table, b, a)
                      THEN 1 ELSE 0}}
                 \cup {"unscoped" : x \in {1} \cap
                     {IF Unscoped(table, a) \/ Unscoped(table, b)
                      THEN 1 ELSE 0}}
                 \cup {"bound variable" : x \in {1} \cap
                     {IF a.k \in {"BoundVar", "LifetimeBoundVar"}
                         \/ b.k \in {"BoundVar", "LifetimeBoundVar"}
                         \/ (a.k = "Const" /\ a.kind = "BoundVar")
                         \/ (b.k = "Const" /\ b.kind = "BoundVar")
                      THEN 1 ELSE 0}})

\* InferenceTable::relate
Relate(variance, a, b) ==
    /\ Running
    /\ Returned(a, b, InferenceTableRelate(table, snapshots, variance, a, b))
    /\ UNCHANGED <<facts, taken>>

\* The table with its snapshots: a caller that creates general variables
\* (leaving room for the fresh variables of the unifier), opens and closes
\* snapshots and unifies leaf types.
Next ==
    \/ \E ui \in 0..max_universe :
          Len(unify) + 2 < MaxVars /\ NewVariable(ui, "General")
    \/ NewUniverse
    \/ Snapshot
    \/ Commit
    \/ RollbackTo
    \/ \E a \in LeafTys, b \in LeafTys : Relate("Invariant", a, b)

Spec == Init /\ [][Next]_vars

\* The unifier on structured types: general variables of the root universe,
\* scalars and pairs.
NextStruct ==
    \/ Len(unify) + 2 < MaxVars /\ NewVariable(0, "General")
    \/ \E variance \in Variances, ab \in StructInputs :
          Relate(variance, ab[1], ab[2])

SpecStruct == Init /\ [][NextStruct]_vars

\* The unifier on leaf types with variables of every kind and universe,
\* under every variance.
NextKinds ==
    \/ \E ui \in 0..max_universe, kind \in {"General", "Integer", "Float"} :
          Len(unify) + 2 < MaxVars /\ NewVariable(ui, kind)
    \/ NewUniverse
    \/ \E variance \in Variances, a \in LeafTys, b \in LeafTys :
          Relate(variance, a, b)

SpecKinds == Init /\ [][NextKinds]_vars

\* The unifier on types of every shape: a caller with variables of every
\* kind and universe relates them with the types, and the types with one
\* another, under every variance.
NextShapes ==
    \/ \E ui \in 0..max_universe, kind \in {"General", "Integer", "Float"} :
          Len(unify) < MaxShapeVars /\ NewVariable(ui, kind)
    \/ NewUniverse
    \/ \E variance \in Variances, ab \in ShapeInputs :
          Relate(variance, ab[1], ab[2])

SpecShapes == Init /\ [][NextShapes]_vars

\* what the table specification hands to unify_ty_ty: variables, scalars,
\* pairs and the projection <S as Trait>::Item
TableTys == VarTys \cup ScalarTys \cup PairTys \cup {Alias("Item", <<Apply("S", <<>>)>>)}

\* a variable with any of these or the other way round, two pairs that end
\* in S, the projection with S
TableInputs ==
    (VarTys \X TableTys) \cup ((TableTys \ VarTys) \X VarTys)
    \cup {ab \in PairTys \X PairTys :
            ab[1].args[2].name = "S" /\ ab[2].args[2].name = "S"}
    \cup ({Alias("Item", <<Apply("S", <<>>)>>)} \X ScalarTys)

\* ty is a variable bound to a variable that is bound as well
Chained(tbl, ty) ==
    /\ normalize_shallow(tbl, ty) # NoneTy
    /\ normalize_shallow(tbl, normalize_shallow(tbl, ty)) # NoneTy

\* the table takes what unify_ty_ty(a, b) left (r), on Ok and on Err alike;
\* the snapshot that Unifier::new took stays open, and the call is recorded
Unified(a, b, r) ==
    /\ SetTable(Table(r.unify, r.values, r.kinds))
    /\ snapshots' = snapshot(table, snapshots)
    /\ taken' = Append(taken, [table |-> table, inner |-> FALSE])
    /\ last' = Call("unify_ty_ty",
                 IF r.res \in {"Ok", "NoSolution"} THEN r.res ELSE "panic",
                 {"lowered" : x \in {1} \cap
                     {IF Lowered(table, r) THEN 1 ELSE 0}}
                 \cup {"normalized" : x \in {1} \cap
                     {IF normalize_shallow(table, a) # NoneTy
                         \/ normalize_shallow(table, b) # NoneTy
                      THEN 1 ELSE 0}}
                 \cup {"chain" : x \in {1} \cap
                     {IF Chained(table, a) \/ Chained(table, b)
                      THEN 1 ELSE 0}}
                 \cup {r.res : x \in {1} \cap
                     {IF r.res \in {"Ok", "NoSolution"} THEN 0 ELSE 1}})

\* Unifier::new(table) followed by unify_ty_ty(a, b) on that unifier
UnifyTyTy(a, b) ==
    /\ Running
    /\ Len(snapshots) < MaxSnapshots
    /\ Unified(a, b, unify_ty_ty(UnifierNew(table), a, b))
    /\ UNCHANGED <<facts, max_universe>>

\* The table under both unifiers: a caller with general variables (Ty::Var
\* has no kind) of every universe; relate of chalk-solve binds them,
\* unify_ty_ty of chalk-rust runs on what is bound.
NextTable ==
    \/ \E ui \in 0..max_universe :
          Len(unify) < MaxCallerVars /\ NewVariable(ui, "General")
    \/ NewUniverse
    \/ \E a \in VarTys, b \in ScalarTys \cup PairTys : Relate("Invariant", a, b)
    \/ \E ab \in TableInputs : UnifyTyTy(ab[1], ab[2])

SpecTable == Init /\ [][NextTable]_vars

\* The unifier on structured types with general and integer variables: a
\* general variable gets bound to an integer variable, and either to a type.
NextChains ==
    \/ \E kind \in {"General", "Integer"} :
          Len(unify) < MaxCallerVars /\ NewVariable(0, kind)
    \/ \E variance \in Variances, ab \in StructInputs :
          Relate(variance, ab[1], ab[2])

SpecChains == Init /\ [][NextChains]_vars

\* The unifier on fn pointers: a caller with one universe of its own, type
\* and lifetime variables, and the universes and variables that
\* relate_binders adds.
NextBinders ==
    \/ \E ui \in 0..max_universe, kind \in {"General", "Lifetime"} :
          Len(unify) < MaxCallerVars /\ NewVariable(ui, kind)
    \/ NewUniverse
    \/ \E variance \in Variances, ab \in BinderInputs :
          Relate(variance, ab[1], ab[2])

SpecBinders == Init /\ [][NextBinders]_vars

\* The unifier on dyn types.
NextDyn ==
    \/ \E ui \in 0..max_universe, kind \in {"General", "Lifetime"} :
          Len(unify) < MaxCallerVars /\ NewVariable(ui, kind)
    \/ NewUniverse
    \/ \E variance \in Variances, ab \in DynInputs :
          Relate(variance, ab[1], ab[2])

SpecDyn == Init /\ [][NextDyn]_vars

\* the lifetimes at hand and a second placeholder in every universe
LifetimesOfTwoSlots ==
    Lifetimes \cup {LifetimePlaceholder(ui, 1) : ui \in 1..max_universe}

\* The unifier on lifetimes: variables and placeholders of every universe.
NextLifetimes ==
    \/ \E ui \in 0..max_universe : NewVariable(ui, "Lifetime")
    \/ NewUniverse
    \/ \E variance \in Variances :
          \E a \in LifetimesOfTwoSlots, b \in LifetimesOfTwoSlots :
              Relate(variance, a, b)

SpecLifetimes == Init /\ [][NextLifetimes]_vars

\* the const placeholders of the universes the caller created
ConstPlaceholders ==
    {ConstPlaceholder(ui, 0, ty) : ui \in 1..max_universe, ty \in ScalarTys}

\* t is a bound variable: a type, a lifetime or a const
IsBoundVar(t) ==
    t.k \in {"BoundVar", "LifetimeBoundVar"} \/ (t.k = "Const" /\ t.kind = "BoundVar")

\* pairs of two types, two lifetimes or two consts of which one is a bound
\* variable that no binder was opened for
BoundVarInputs ==
    LET tys == {Tm("BoundVar", 0, 0, "", "", <<>>)} \cup VarTys \cup ScalarTys
               \cup {Alias("Item", <<Apply("S", <<>>)>>)}
        lifetimes == {LifetimeBoundVar(0)} \cup Lifetimes
        consts == {ConstBoundVar(0, ty) : ty \in ScalarTys}
                  \cup ConstTys \cup ConstPlaceholders
    IN  {ab \in (tys \X tys) \cup (lifetimes \X lifetimes) \cup (consts \X consts) :
            IsBoundVar(ab[1]) \/ IsBoundVar(ab[2])}

\* what the const specification relates: two consts, a const with a const
\* placeholder, and the pairs with a bound variable
ConstInputs ==
    (ConstTys \X ConstTys) \cup (ConstTys \X ConstPlaceholders)
    \cup (ConstPlaceholders \X ConstTys) \cup BoundVarInputs

\* The unifier on consts: a caller with type and const variables of every
\* universe.
NextConsts ==
    \/ \E ui \in 0..max_universe, kind \in {"General", "Const"} :
          Len(unify) < MaxCallerVars /\ NewVariable(ui, kind)
    \/ NewUniverse
    \/ \E variance \in Variances, ab \in ConstInputs :
          Relate(variance, ab[1], ab[2])

SpecConsts == Init /\ [][NextConsts]_vars

\* The unifier on pairs whose two arguments both bind variables or push
\* goals.
NextOrder ==
    \/ Len(unify) < MaxCallerVars /\ NewVariable(0, "General")
    \/ \E variance \in Variances, a \in OrderTys, b \in OrderTys :
          Relate(variance, a, b)

SpecOrder == Init /\ [][NextOrder]_vars

\* The unifier on aliases.
NextAlias ==
    \/ \E ui \in 0..max_universe :
          Len(unify) + 2 < MaxVars /\ NewVariable(ui, "General")
    \/ NewUniverse
    \/ \E variance \in Variances, ab \in AliasInputs :
          Relate(variance, ab[1], ab[2])

SpecAlias == Init /\ [][NextAlias]_vars

----------------------------------------------------------------------------
(* Snapshots.                                                              *)

\* the table as it was when the innermost open snapshot was taken
AtSnapshot == taken[Len(taken)].table

\* C1 Snapshot atomicity: after rollback_to, every variable allocated before
\* the snapshot probes as it did when the snapshot was taken (the same
\* unbound universe or the same bound type).
C1_SnapshotAtomicity ==
    [][last'.op = "rollback_to" =>
        \A v \in 1..Len(AtSnapshot.unify) :
            /\ v <= Len(unify')
            /\ Probe(Table(unify', values', kinds'), v) = Probe(AtSnapshot, v)]_vars

\* a rollback has just undone a bind or a union of an older variable
C1_Witness == last.op = "rollback_to" /\ "undone" \in last.note

\* C10 Snapshots nest: rolling back a snapshot restores the union-find and
\* the length of values to what they were when it was taken, also when
\* changes were committed by snapshots nested in it.
C10_NestedRollback ==
    [][last'.op = "rollback_to" =>
        /\ unify' = AtSnapshot.unify
        /\ Len(values') = Len(AtSnapshot.values)
        /\ snapshots' = Front(snapshots)]_vars

\* an outer rollback has just undone changes that an inner snapshot committed
C10_Witness == last.op = "rollback_to" /\ {"undone", "inner"} \subseteq last.note

----------------------------------------------------------------------------
(* The outermost relate.                                                   *)

\* what InferenceTable::relate would do from the current state
RelateNow(variance, a, b) == InferenceTableRelate(table, snapshots, variance, a, b)

\* C2 A relate that returns NoSolution leaves the table (unions, bindings,
\* universes, allocated variables) and the open snapshots as they were
\* before the call, and hands no goals to the caller.
C2_FailedRelateLeavesTable ==
    \A variance \in Variances, ab \in StructInputs :
        LET r == RelateNow(variance, ab[1], ab[2])
        IN  r.res = "NoSolution" =>
                /\ r.table = table
                /\ r.open = snapshots
                /\ r.goals = <<>>

\* a relate has just failed after its sub-relations changed the table
C2_Witness ==
    last.op = "relate" /\ last.res = "NoSolution" /\ "touched" \in last.note

----------------------------------------------------------------------------
(* Universes.                                                              *)

\* v is allocated and unbound in the union-find t
IsUnbound(t, v) == v \in 1..Len(t) /\ ~t[v].value.bound

\* the universe of no variable that stays unbound goes up in this step
NoUniverseIncrease ==
    \A v \in 1..Len(unify) :
        IsUnbound(unify, v) /\ IsUnbound(unify', v) =>
            unify'[v].value.ui <= unify[v].value.ui

\* C3 (as stated) Universe monotonicity: the universe recorded for an
\* unbound variable never increases across any table operation, rollback_to
\* included.
C3_UniverseNeverIncreases == [][NoUniverseIncrease]_vars

\* C3 (amended) The universe recorded for an unbound variable never
\* increases across any table operation other than rollback_to; rollback_to
\* gives every variable the universe it had when the snapshot was taken.
C3_UniverseMonotoneButRollback ==
    [][/\ last'.op # "rollback_to" => NoUniverseIncrease
       /\ last'.op = "rollback_to" =>
            \A v \in 1..Len(AtSnapshot.unify) :
                IsUnbound(AtSnapshot.unify, v) =>
                    /\ IsUnbound(unify', v)
                    /\ unify'[v].value.ui = AtSnapshot.unify[v].value.ui]_vars

\* a union has just lowered a universe while a snapshot is open
C3_Witness == "lowered" \in last.note /\ snapshots # <<>>

\* C4 Scope safety: when a variable that was unbound in universe u becomes
\* bound, every placeholder in its value has a universe of at most u.
C4_ScopeSafety ==
    [][\A v \in 1..Len(unify) :
         IsUnbound(unify, v) /\ v <= Len(unify') /\ unify'[v].value.bound =>
            \A l \in Leaves(table', values'[unify'[v].value.val], Len(values')) :
                l.k = "Placeholder" => l.ui <= unify[v].value.ui]_vars

\* C9 unify_var_var: unifying two unbound variables of universes u1 and u2
\* (an Invariant relate of the two) succeeds and leaves both probing
\* Unbound(min(u1, u2)).
C9_UnifyVarVarMin ==
    \A a \in VarTys, b \in VarTys :
        IsUnbound(unify, a.id) /\ IsUnbound(unify, b.id) /\ a.kind = b.kind =>
            LET r == RelateNow("Invariant", a, b)
                least == Unbound(Min(unify[a.id].value.ui, unify[b.id].value.ui))
            IN  /\ r.res = "Ok"
                /\ probe_value(r.table.unify, a.id) = least
                /\ probe_value(r.table.unify, b.id) = least

\* two distinct variables are unified and unbound, and the union lowered the
\* universe of one of them
C9_Witness ==
    /\ last.op = "relate" /\ last.res = "Ok" /\ "lowered" \in last.note
    /\ \E a \in 1..Len(unify), b \in 1..Len(unify) :
          a # b /\ unioned(unify, a, b) /\ IsUnbound(unify, a)

----------------------------------------------------------------------------
(* The occurs check.                                                       *)

\* the concrete types a variable is related with
ConcreteTys == ScalarTys \cup PairTys

\* C5 Occurs soundness: the value of a bound variable, after following the
\* bindings of the bound variables in it, holds no variable of the bound
\* variable's class; and relating an unbound variable with a type that holds
\* a variable of its class fails with NoSolution and changes nothing.
C5_OccursSoundness ==
    /\ \A v \in 1..Len(unify) :
          unify[v].value.bound =>
              \A l \in Leaves(table, values[unify[v].value.val], Len(values)) :
                  ~(l.k = "InferenceVar" /\ unioned(unify, l.id, v))
    /\ \A variance \in Variances, var \in VarTys, ty \in ConcreteTys :
          OccursIn(table, var, ty) =>
              /\ RelateNow(variance, var, ty).res = "NoSolution"
              /\ RelateNow(variance, var, ty).table = table
              /\ RelateNow(variance, ty, var).res = "NoSolution"
              /\ RelateNow(variance, ty, var).table = table

\* a relate of a variable with a type holding it has just failed, and there
\* is a type that holds a variable only through the value of a bound one
C5_Witness ==
    /\ last.op = "relate" /\ last.res = "NoSolution" /\ "occurs" \in last.note
    /\ \E var \in VarTys, ty \in PairTys :
          /\ OccursIn(table, var, ty)
          /\ \A l \in Leaves(table, ty, 0) : ~unioned(unify, l.id, var.id)

----------------------------------------------------------------------------
(* normalize_shallow.                                                      *)

\* C8 Idempotence of normalize_shallow: the value that normalize_shallow
\* returns for a bound variable is not itself a bound variable.
C8_NormalizeShallowIdempotent ==
    \A t \in VarTys :
        normalize_shallow(table, t) # NoneTy =>
            normalize_shallow(table, normalize_shallow(table, t)) = NoneTy

----------------------------------------------------------------------------
(* Variance.                                                               *)

\* ty with the inference variables in the domain of pi renamed by pi
RECURSIVE Rename(_, _)
Rename(ty, pi) ==
    IF ty.k = "InferenceVar"
    THEN IF ty.id \in DOMAIN pi THEN [ty EXCEPT !.id = pi[ty.id]] ELSE ty
    ELSE [ty EXCEPT !.args = [i \in 1..Len(ty.args) |-> Rename(ty.args[i], pi)]]

\* the goals of r as a set, their fresh variables renamed by pi
GoalSet(r, pi) ==
    {Goal(r.goals[i].g, Rename(r.goals[i].a, pi), Rename(r.goals[i].b, pi)) :
        i \in 1..Len(r.goals)}

\* the variables that the relate returning r created
Fresh(r) == (Len(unify) + 1)..Len(r.table.unify)

\* the one-to-one renamings of the fresh variables of r1 to those of r2
Renamings(r1, r2) ==
    {pi \in [Fresh(r1) -> Fresh(r2)] :
        \A x \in Fresh(r1), y \in Fresh(r1) : pi[x] = pi[y] => x = y}

\* both fail, or both succeed with the same goals up to the fresh variables
SameOutcome(r1, r2) ==
    /\ r1.res = r2.res
    /\ r1.res = "Ok" =>
          \E pi \in Renamings(r1, r2) : GoalSet(r1, pi) = GoalSet(r2, <<>>)

\* C6 Variance symmetry: relate(Covariant, a, b) and relate(Contravariant,
\* b, a) both fail or both succeed, and on success give the same set of
\* goals up to renaming of the fresh variables they create.
C6_VarianceSymmetry ==
    \A ab \in StructInputs :
        LET r1 == RelateNow("Covariant", ab[1], ab[2])
            r2 == RelateNow("Contravariant", ab[2], ab[1])
        IN  r1.res # "overflow" /\ r2.res # "overflow" => SameOutcome(r1, r2)

----------------------------------------------------------------------------
(* The universe counter.                                                   *)

\* the universes of the placeholders in a term
RECURSIVE PlaceholderUniverses(_)
PlaceholderUniverses(ty) ==
    (IF ty.k \in {"Placeholder", "LifetimePlaceholder"}
        \/ (ty.k = "Const" /\ ty.kind = "Placeholder")
     THEN {ty.ui} ELSE {})
    \cup UNION {PlaceholderUniverses(ty.args[i]) : i \in 1..Len(ty.args)}

\* max_universe is at least the universe of every unbound variable and of
\* every placeholder in a stored value
UniversesCounted ==
    /\ \A v \in 1..Len(unify) :
          ~unify[v].value.bound => unify[v].value.ui <= max_universe
    /\ \A i \in 1..Len(values) :
          \A ui \in PlaceholderUniverses(values[i]) : ui <= max_universe

----------------------------------------------------------------------------
(* Bindings.                                                               *)

\* variable v is bound now and the step leaves it bound to the same value
StaysBound(v) ==
    /\ v <= Len(unify')
    /\ unify'[v].value = unify[v].value
    /\ unify[v].value.val <= Len(values')
    /\ values'[unify[v].value.val] = values[unify[v].value.val]

----------------------------------------------------------------------------
(* Binders.                                                                *)

\* the first block of relate_binders on the table as it is now
FirstPass(variance, a, b) ==
    binders_universal_existential(universal_universe(UnifierNew(table)),
                                  variance, a, b)

\* the second block, run from where the first one (first) ended
SecondPass(first, variance, a, b) ==
    binders_existential_universal(universal_universe(first), variance, a, b)

\* r, what relate_binders returned, against first, what its first block
\* returned: Ok needs both blocks, and after a failed first block nothing of
\* the second has happened (no second universe, no further variables)
BothPasses(first, r, variance, a, b) ==
    /\ r.res = "Ok" =>
          /\ first.res = "Ok"
          /\ SecondPass(first, variance, a, b).res = "Ok"
          /\ r.max_universe = max_universe + 2
    /\ first.res = "Ok" /\ SecondPass(first, variance, a, b).res = "NoSolution"
          => r.res = "NoSolution"
    /\ first.res = "NoSolution" =>
          /\ r.res = "NoSolution"
          /\ r.max_universe = max_universe + 1
          /\ Len(r.unify) = Len(first.unify)

\* C13 Binder relation: relate_binders succeeds only if its first pass (a
\* universally, b existentially) and its second pass (b universally, a
\* existentially) both succeed; when the first pass fails the second is not
\* run and the result is NoSolution.
C13_BothPasses ==
    \A variance \in Variances, a \in FnTys, b \in FnTys :
        BothPasses(FirstPass(variance, a, b),
                   relate_binders(UnifierNew(table), variance, a, b),
                   variance, a, b)

\* a relate of two fn pointers went through both passes, in a state where
\* another pair fails in the first pass
C13_Witness ==
    /\ last.op = "relate" /\ last.res = "Ok" /\ "opened" \in last.note
    /\ \E variance \in Variances, a \in FnTys, b \in FnTys :
          FirstPass(variance, a, b).res = "NoSolution"

----------------------------------------------------------------------------
(* Aliases.                                                                *)

\* ty as relate_ty_ty sees it: a bound variable is replaced by its value
Normalized(ty) ==
    IF normalize_shallow(table, ty) = NoneTy THEN ty ELSE normalize_shallow(table, ty)

\* the variable that the next new_variable creates
NextVar == InferenceVar(Len(unify) + 1, "General")

\* r is what relating alias with other returned, inner the variance under
\* which the fresh variable is to be related with other
AliasRelated(r, variance, inner, alias, other) ==
    /\ r.res \in {"Ok", "overflow"}
    /\ \A v \in 1..Len(unify) : IsUnbound(unify, v) => IsUnbound(r.unify, v)
    /\ r.res = "Ok" /\ variance = "Invariant" =>
          /\ r.goals = <<Goal("AliasEq", alias, other)>>
          /\ Table(r.unify, r.values, r.kinds) = table
    /\ r.res = "Ok" /\ variance # "Invariant" =>
          /\ Head(r.goals) = Goal("AliasEq", alias, NextVar)
          /\ r = relate_ty_ty(
                    push_alias_eq_goal(new_variable(UnifierNew(table), 0, "General"),
                                       alias, NextVar),
                    inner, NextVar, other)

\* C14 Alias relation: relating an alias with another type never fails and
\* binds no variable that existed before; under Invariant the only effect is
\* the goal AliasEq(alias, other); under Covariant and Contravariant a fresh
\* variable ?X of the root universe is created, AliasEq(alias, ?X) is the
\* first goal, and ?X is related with the other type under the variance
\* given, inverted when the alias is on the right.
C14_AliasNeverFails ==
    \A variance \in Variances, ab \in AliasInputs :
        IF ab[1].k = "Alias"
        THEN AliasRelated(relate_ty_ty(UnifierNew(table), variance, ab[1], ab[2]),
                          variance, variance, ab[1], Normalized(ab[2]))
        ELSE AliasRelated(relate_ty_ty(UnifierNew(table), variance, ab[1], ab[2]),
                          variance, invert(variance), ab[2], Normalized(ab[1]))

\* an alias was related under Covariant or Contravariant: goals were
\* pushed and the fresh variable was bound
C14_Witness ==
    /\ last.op = "relate" /\ last.res = "Ok"
    /\ {"goals", "touched"} \subseteq last.note
    /\ \E v \in 1..Len(unify) : unify[v].value.bound

----------------------------------------------------------------------------
(* Variables against concrete types.                                       *)

\* r, what relating the unbound variable var with ty returned, pushed the
\* one goal SubtypeGoal(sub, sup) and left var unbound
OnlySubtypeGoal(r, var, sub, sup) ==
    r.res = "Ok" =>
        /\ r.goals = <<Goal("SubtypeGoal", sub, sup)>>
        /\ IsUnbound(r.unify, var.id)

\* C15 Variance: under Covariant, relating an unbound variable a with a
\* concrete type b pushes SubtypeGoal(a, b) and leaves a unbound; under
\* Contravariant it pushes SubtypeGoal(b, a).
C15_VarConcretePushesSubtype ==
    \A a \in VarTys, b \in ConcreteTys :
        IsUnbound(unify, a.id) =>
            /\ OnlySubtypeGoal(relate_ty_ty(UnifierNew(table), "Covariant", a, b),
                               a, a, b)
            /\ OnlySubtypeGoal(relate_ty_ty(UnifierNew(table), "Contravariant", a, b),
                               a, b, a)

\* t1 and t2 have the same outermost constructor
SameConstructor(t1, t2) == t1.k = t2.k /\ t1.name = t2.name

\* r is what relating the unbound variable v with t returned: on success v
\* is bound to a type with the constructor of t, and from there relating v
\* with a type of another constructor fails
Committed(r, v, t) ==
    r.res = "Ok" =>
        /\ probe_value(r.unify, v.id).bound
        /\ SameConstructor(r.values[probe_value(r.unify, v.id).val], t)
        /\ \A variance \in Variances, t2 \in ConcreteTys :
              ~SameConstructor(t, t2) =>
                  relate_ty_ty([r EXCEPT !.goals = <<>>], variance, v, t2).res
                      = "NoSolution"

----------------------------------------------------------------------------
(* Generalization.                                                         *)

\* what a lifetime stands for in the table of r: the value of a bound
\* variable, else the lifetime itself
Resolved(r, lifetime) ==
    IF lifetime.k = "LifetimeVar" /\ probe_value(r.unify, lifetime.id).bound
    THEN r.values[probe_value(r.unify, lifetime.id).val]
    ELSE lifetime

\* in the table and goals of r the lifetime fresh is tied to the lifetime
\* orig: they stand for the same lifetime, they are variables of one class,
\* or a goal relates them
Tied(r, fresh, orig) ==
    \/ Resolved(r, fresh) = Resolved(r, orig)
    \/ /\ Resolved(r, fresh).k = "LifetimeVar"
       /\ Resolved(r, orig).k = "LifetimeVar"
       /\ unioned(r.unify, Resolved(r, fresh).id, Resolved(r, orig).id)
    \/ \E i \in 1..Len(r.goals) :
          {r.goals[i].a, r.goals[i].b} \subseteq
              {fresh, orig, Resolved(r, fresh), Resolved(r, orig)}

\* r is what relating the unbound variable v with t returned: the lifetime
\* of the type v is bound to is tied to the lifetime of t
ChildKept(r, v, t) ==
    r.res = "Ok" =>
        Tied(r, r.values[probe_value(r.unify, v.id).val].args[1], t.args[1])

\* C17 Generalization: when relate_var_ty binds a variable to the
\* generalization of a type, the fresh variable that stands for a child (the
\* lifetime of a reference, the lifetime of a dyn type) has been related with
\* the child it replaces, so no constraint is lost.
C17_GeneralizationKeepsChildren ==
    \A v \in VarTys, t \in DynTys \cup RefTys :
        IsUnbound(unify, v.id) =>
            ChildKept(relate_ty_ty(UnifierNew(table), "Invariant", v, t), v, t)

\* the same for references alone
RefChildrenKept ==
    \A v \in VarTys, t \in RefTys :
        IsUnbound(unify, v.id) =>
            ChildKept(relate_ty_ty(UnifierNew(table), "Invariant", v, t), v, t)

----------------------------------------------------------------------------
(* Lifetimes.                                                              *)

Outlives(a, b) == Goal("LifetimeOutlives", a, b)

\* the goals that stand for a = b, a: b or b: a
OutlivesGoals(variance, a, b) ==
    CASE variance = "Invariant" -> <<Outlives(a, b), Outlives(b, a)>>
      [] variance = "Covariant" -> <<Outlives(a, b)>>
      [] variance = "Contravariant" -> <<Outlives(b, a)>>

\* r is what relating a with b returned, one of them the unbound variable
\* var and the other the placeholder p
VarPlaceholder(r, variance, a, b, var, p) ==
    /\ r.res = "Ok"
    /\ IF probe_value(unify, var.id).ui >= p.ui
       THEN /\ probe_value(r.unify, var.id).bound
            /\ r.values[probe_value(r.unify, var.id).val] = p
            /\ r.goals = <<>>
       ELSE /\ Table(r.unify, r.values, r.kinds) = table
            /\ r.goals = OutlivesGoals(variance, a, b)

\* C18 Lifetimes: relating an unbound lifetime variable with a lifetime
\* placeholder binds the variable to the placeholder, with no goal, iff the
\* universe of the variable is at least that of the placeholder; otherwise
\* the table is left alone and the LifetimeOutlives goals are pushed: a: b
\* and b: a under Invariant, a: b under Covariant, b: a under Contravariant.
C18_LifetimeVarPlaceholder ==
    \A variance \in Variances, var \in LifetimeVars, p \in LifetimePlaceholders :
        IsUnbound(unify, var.id) =>
            /\ VarPlaceholder(
                    relate_lifetime_lifetime(UnifierNew(table), variance, var, p),
                    variance, var, p, var, p)
            /\ VarPlaceholder(
                    relate_lifetime_lifetime(UnifierNew(table), variance, p, var),
                    variance, p, var, var, p)

\* a lifetime variable is bound to a placeholder, and the last relate left
\* the table alone and pushed goals
C18_Witness ==
    /\ last.op = "relate" /\ last.res = "Ok"
    /\ "goals" \in last.note /\ "touched" \notin last.note
    /\ \E v \in 1..Len(unify) :
          /\ unify[v].value.bound
          /\ values[unify[v].value.val].k = "LifetimePlaceholder"
    /\ \E v \in 1..Len(unify) : IsUnbound(unify, v) /\ unify[v].value.ui = 0

----------------------------------------------------------------------------
(* Consts.                                                                 *)

\* r is what relate_const_const returned for a and b under some variance,
\* types what relating their declared types invariantly returns
TypesInvariantly(r, types, a, b) ==
    /\ types.res = "NoSolution" => r.res = "NoSolution"
    /\ r = relate_const_const(UnifierNew(table), "Invariant", a, b)

\* C19 Consts: relate_const_const relates the declared types of the two
\* consts invariantly whatever the variance it is called with, so its outcome
\* is that of the call under Invariant, and it fails when relating the types
\* fails.
C19_ConstTypesInvariant ==
    \A variance \in Variances, a \in ConstTys, b \in ConstTys :
        TypesInvariantly(
            relate_const_const(UnifierNew(table), variance, a, b),
            relate_ty_ty(UnifierNew(table), "Invariant", a.args[1], b.args[1]),
            a, b)

----------------------------------------------------------------------------
(* Order.                                                                  *)

\* the unifier first with the goals it has collected put aside
FromThere(first) == [first EXCEPT !.goals = <<>>]

\* r is what relating two pairs returned, first what relating their first
\* arguments returns, second what relating their second arguments returns
\* from there: the goals of the first come before those of the second, and
\* the table is the one the second leaves
InOrder(r, first, second) ==
    r.res = "Ok" =>
        /\ first.res = "Ok" /\ second.res = "Ok"
        /\ r.goals = first.goals \o second.goals
        /\ Table(r.unify, r.values, r.kinds)
              = Table(second.unify, second.values, second.kinds)

SecondArgument(first, variance, a, b) ==
    zip_with(FromThere(first), xform(variance, adt_variance("Pair")[2]),
             a.args[2], b.args[2])

FirstArgument(variance, a, b) ==
    zip_with(UnifierNew(table), xform(variance, adt_variance("Pair")[1]),
             a.args[1], b.args[1])

\* C20 Order: when Pair<a1, a2> and Pair<b1, b2> are related successfully,
\* the goals are those of relating (a1, b1) followed by those of relating
\* (a2, b2), and the table is changed by (a1, b1) first and by (a2, b2) from
\* there.
C20_GenerationOrder ==
    \A variance \in Variances, a \in OrderTys, b \in OrderTys :
        InOrder(UnifierRelate(UnifierNew(table), variance, a, b),
                FirstArgument(variance, a, b),
                SecondArgument(FirstArgument(variance, a, b), variance, a, b))

\* a relate of two pairs bound a variable and pushed goals
C20_Witness ==
    /\ last.op = "relate" /\ last.res = "Ok"
    /\ {"goals", "touched"} \subseteq last.note
    /\ \E variance \in Variances, a \in OrderTys, b \in OrderTys :
          /\ UnifierRelate(UnifierNew(table), variance, a, b).res = "Ok"
          /\ FirstArgument(variance, a, b).goals # <<>>
          /\ SecondArgument(FirstArgument(variance, a, b), variance, a, b).goals
                # <<>>

----------------------------------------------------------------------------
(* The program database.  The text of a program is a sequence of items;    *)
(* lowering gives every item the identifier of its place in the text.      *)

MaxItems == 4         \* items in a program text

\* an item of the surface syntax
Item(item, name, trait, self, flag, ref) ==
    [item |-> item, name |-> name, trait |-> trait, self |-> self,
     flag |-> flag, ref |-> ref]

\* struct name { field }            (field "": no field)
StructDefn(name, field) == Item("struct", name, "", "", FALSE, field)
\* #[auto] trait name where Self: bound { }     (bound "": no where clause)
TraitDefn(name, auto, bound) == Item("trait", name, "", "", auto, bound)
\* impl trait for self { }, impl !trait for self { }; self "T": impl<T>
Impl(trait, self, positive) == Item("impl", "", trait, self, positive, "")
\* opaque type name: bound = hidden;
OpaqueTyDefn(name, bound, hidden) == Item("opaque", name, bound, hidden, FALSE, "")

\* TyData::Apply with TypeName::Adt(id), TyData::Alias(AliasTy::Opaque) of
\* the opaque type id, TyData::BoundVar
AdtTy(id) == Tm("Apply", id, 0, "Adt", "", <<>>)
OpaqueTy(id) == Tm("Alias", id, 0, "Opaque", "", <<>>)
BoundVar(index) == Tm("BoundVar", index, 0, "", "", <<>>)

\* the items of a text that declare name as a struct, trait or opaque type
Declared(text, item, name) ==
    {i \in 1..Len(text) : text[i].item = item /\ text[i].name = name}

\* a type name of the text, lowered; NoneTy when nothing declares it
lower_ty(text, name, generic) ==
    IF generic /\ name = "T" THEN BoundVar(0)
    ELSE IF Declared(text, "struct", name) # {}
    THEN AdtTy(CHOOSE i \in Declared(text, "struct", name) : TRUE)
    ELSE IF Declared(text, "opaque", name) # {}
    THEN OpaqueTy(CHOOSE i \in Declared(text, "opaque", name) : TRUE)
    ELSE NoneTy

\* a trait name of the text, lowered; 0 when nothing declares it
lower_trait(text, name) ==
    IF Declared(text, "trait", name) # {}
    THEN CHOOSE i \in Declared(text, "trait", name) : TRUE
    ELSE 0

\* lowering fails on a name declared twice
DuplicateName(text) ==
    \E i, j \in 1..Len(text) :
        /\ i < j
        /\ text[i].item # "impl" /\ text[j].item # "impl"
        /\ text[i].name = text[j].name

\* lowering fails on a name nothing declares
UnknownName(text) ==
    \E i \in 1..Len(text) :
        LET it == text[i]
        IN  \/ it.item = "struct" /\ it.ref # ""
               /\ lower_ty(text, it.ref, FALSE) = NoneTy
            \/ it.item = "trait" /\ it.ref # "" /\ lower_trait(text, it.ref) = 0
            \/ it.item = "impl" /\ lower_trait(text, it.trait) = 0
            \/ it.item = "impl" /\ lower_ty(text, it.self, TRUE) = NoneTy
            \/ it.item = "opaque" /\ lower_trait(text, it.trait) = 0
            \/ it.item = "opaque" /\ lower_ty(text, it.self, FALSE) = NoneTy

\* the items of one kind
ItemsOf(text, item) == {i \in 1..Len(text) : text[i].item = item}

\* WhereClause::Implemented(trait_id)
Implemented(trait_id) == [trait_id |-> trait_id]

\* the Program of a text: the maps from names to identifiers and from
\* identifiers to data
Program(text) ==
    [adt_ids |-> [n \in {text[i].name : i \in ItemsOf(text, "struct")} |->
                    CHOOSE i \in Declared(text, "struct", n) : TRUE],
     trait_ids |-> [n \in {text[i].name : i \in ItemsOf(text, "trait")} |->
                    CHOOSE i \in Declared(text, "trait", n) : TRUE],
     opaque_ty_ids |-> [n \in {text[i].name : i \in ItemsOf(text, "opaque")} |->
                    CHOOSE i \in Declared(text, "opaque", n) : TRUE],
     adt_kinds |-> [i \in ItemsOf(text, "struct") |-> [name |-> text[i].name]],
     trait_kinds |-> [i \in ItemsOf(text, "trait") |-> [name |-> text[i].name]],
     opaque_ty_kinds |-> [i \in ItemsOf(text, "opaque") |-> [name |-> text[i].name]],
     adt_data |-> [i \in ItemsOf(text, "struct") |->
                    [id |-> i,
                     fields |-> IF text[i].ref = "" THEN <<>>
                                ELSE <<lower_ty(text, text[i].ref, FALSE)>>]],
     trait_data |-> [i \in ItemsOf(text, "trait") |->
                    [id |-> i, auto |-> text[i].flag,
                     where_clauses |->
                        IF text[i].ref = "" THEN <<>>
                        ELSE <<Implemented(lower_trait(text, text[i].ref))>>]],
     impl_data |-> [i \in ItemsOf(text, "impl") |->
                    [positive |-> text[i].flag,
                     trait_ref |->
                        [trait_id |-> lower_trait(text, text[i].trait),
                         substitution |-> <<lower_ty(text, text[i].self, TRUE)>>]]],
     opaque_ty_data |-> [i \in ItemsOf(text, "opaque") |->
                    [opaque_ty_id |-> i,
                     bounds |-> <<Implemented(lower_trait(text, text[i].trait))>>]],
     hidden_opaque_types |-> [i \in ItemsOf(text, "opaque") |->
                    lower_ty(text, text[i].self, FALSE)]]

\* LoweringDatabase::program_ir: Ok(program) or Err
lower(text) ==
    IF DuplicateName(text) \/ UnknownName(text)
    THEN [ok |-> FALSE, program |-> Program(<<>>)]
    ELSE [ok |-> TRUE, program |-> Program(text)]

program_ir == lower(program_text)

\* the keys of a BTreeMap in the order its iterator yields them
RECURSIVE keys(_)
keys(map) ==
    IF DOMAIN map = {} THEN <<>>
    ELSE LET k == CHOOSE x \in DOMAIN map : \A y \in DOMAIN map : x <= y
         IN  <<k>> \o keys([y \in DOMAIN map \ {k} |-> map[y]])

\* chalk_ir::could_match on one pair of types: only two applications of
\* different type names cannot match
could_match_ty(a, b) ==
    ~(a.k = "Apply" /\ b.k = "Apply" /\ (a.kind # b.kind \/ a.id # b.id))

\* chalk_ir::could_match on two parameter lists of the same length
could_match(parameters, substitution) ==
    \A i \in 1..Len(parameters) : could_match_ty(parameters[i], substitution[i])

Found(res, val) == [res |-> res, val |-> val]

\* impls_for_trait without the could_match filter
impls_for_trait_unfiltered(program, trait_id, parameters) ==
    LET impl_data == program.impl_data
        SameTrait(id) == impl_data[id].trait_ref.trait_id = trait_id
    IN  IF \E id \in DOMAIN impl_data :
              /\ SameTrait(id)
              /\ Len(impl_data[id].trait_ref.substitution) # Len(parameters)
        THEN Found("panic", <<>>)
        ELSE Found("Ok", SelectSeq(keys(impl_data), SameTrait))

\* Program::impls_for_trait: the impls of impl_data, in the order of their
\* keys, that pass the filter; the assert_eq! on the two lengths panics
impls_for_trait(program, trait_id, parameters) ==
    LET impl_data == program.impl_data
        SameTrait(id) == impl_data[id].trait_ref.trait_id = trait_id
        Passes(id) ==
            /\ SameTrait(id)
            /\ could_match(parameters, impl_data[id].trait_ref.substitution)
    IN  IF \E id \in DOMAIN impl_data :
              /\ SameTrait(id)
              /\ Len(impl_data[id].trait_ref.substitution) # Len(parameters)
        THEN Found("panic", <<>>)
        ELSE Found("Ok", SelectSeq(keys(impl_data), Passes))

\* ImplDatum::self_type_adt_id: the ADT of the first parameter of the trait
\* ref, 0 (None) when that is no ADT
self_type_adt_id(impl_datum) ==
    LET ty == impl_datum.trait_ref.substitution[1]
    IN  IF ty.k = "Apply" /\ ty.kind = "Adt" THEN ty.id ELSE 0

\* impl_provided_for that counts positive impls only
impl_provided_for_positive(program, auto_trait_id, adt_id) ==
    \E id \in DOMAIN program.impl_data :
        /\ program.impl_data[id].positive
        /\ program.impl_data[id].trait_ref.trait_id = auto_trait_id
        /\ self_type_adt_id(program.impl_data[id]) = adt_id

\* Program::impl_provided_for
impl_provided_for(program, auto_trait_id, adt_id) ==
    \E id \in DOMAIN program.impl_data :
        /\ program.impl_data[id].trait_ref.trait_id = auto_trait_id
        /\ self_type_adt_id(program.impl_data[id]) = adt_id

\* map[&id].clone() and map.get(&id).unwrap(): a key the map lacks panics
Index(map, id) ==
    IF id \in DOMAIN map THEN Found("Ok", map[id]) ELSE Found("panic", <<>>)

\* Program::trait_datum, ::adt_datum, ::impl_datum, ::opaque_ty_data,
\* ::hidden_opaque_type, ::trait_name and ::struct_name
trait_datum(program, id) == Index(program.trait_data, id)
adt_datum(program, id) == Index(program.adt_data, id)
impl_datum(program, id) == Index(program.impl_data, id)
opaque_ty_data(program, id) == Index(program.opaque_ty_data, id)
hidden_opaque_type(program, id) == Index(program.hidden_opaque_types, id)
trait_name(program, id) ==
    LET kind == Index(program.trait_kinds, id)
    IN  IF kind.res = "Ok" THEN Found("Ok", kind.val.name) ELSE kind
struct_name(program, id) ==
    LET kind == Index(program.adt_kinds, id)
    IN  IF kind.res = "Ok" THEN Found("Ok", kind.val.name) ELSE kind

\* a lookup by its name
Datum(op, program, id) ==
    CASE op = "trait_datum" -> trait_datum(program, id)
      [] op = "adt_datum" -> adt_datum(program, id)
      [] op = "impl_datum" -> impl_datum(program, id)
      [] op = "opaque_ty_data" -> opaque_ty_data(program, id)
      [] op = "hidden_opaque_type" -> hidden_opaque_type(program, id)
      [] op = "trait_name" -> trait_name(program, id)
      [] op = "struct_name" -> struct_name(program, id)

Lookups == {"trait_datum", "adt_datum", "impl_datum", "opaque_ty_data",
            "hidden_opaque_type", "trait_name", "struct_name"}

\* the texts of at most MaxItems items over a set of items
RECURSIVE TextsOf(_, _)
TextsOf(items, n) ==
    IF n = 0 THEN {<<>>}
    ELSE LET shorter == TextsOf(items, n - 1)
         IN  shorter \cup {Append(t, it) : t \in shorter, it \in items}

\* the items of the programs that are asked for impls
ImplItems ==
    {StructDefn("Foo", ""), StructDefn("Baz", ""),
     TraitDefn("Bar", FALSE, ""), TraitDefn("Send", TRUE, ""),
     Impl("Bar", "Foo", TRUE), Impl("Bar", "T", TRUE),
     Impl("Send", "Foo", TRUE), Impl("Send", "Baz", FALSE)}

\* the parameter lists a goal asks impls for
Parameters ==
    {<<AdtTy(id)>> : id \in 1..MaxItems}
        \cup {<<InferenceVar(1, "General")>>, <<AdtTy(1), AdtTy(1)>>}

\* a database that has no text yet and was not asked anything
Unasked == program_text = <<>> /\ answer.op = "none"

\* ChalkDatabase::with: a new database is given its program text
With(text) ==
    /\ Unasked
    /\ program_text' = text
    /\ answer' = NoAnswer
    /\ UNCHANGED <<tls, solver, unify, values, kinds, max_universe, snapshots, taken, last>>

\* a call on the database: program_ir().unwrap() panics when the text does
\* not lower.  The calls read the program and leave it as it is, so every
\* answer of a database is seen in the first call made on it.
Asked(op, arg, found) ==
    /\ answer.op = "none"
    /\ answer' = IF program_ir.ok
                 THEN [op |-> op, arg |-> arg, res |-> found.res, val |-> found.val]
                 ELSE [op |-> op, arg |-> arg, res |-> "panic", val |-> <<>>]
    /\ UNCHANGED <<program_text, tls, solver, unify, values, kinds, max_universe,
                   snapshots, taken, last>>

\* ChalkDatabase::impls_for_trait
ImplsForTrait(trait_id, parameters) ==
    Asked("impls_for_trait", <<trait_id, parameters>>,
          impls_for_trait(program_ir.program, trait_id, parameters))

\* ChalkDatabase::impl_provided_for
ImplProvidedFor(auto_trait_id, adt_id) ==
    Asked("impl_provided_for", <<auto_trait_id, adt_id>>,
          Found("Ok", impl_provided_for(program_ir.program, auto_trait_id, adt_id)))

\* ChalkDatabase::trait_datum and the other lookups by identifier
Lookup(op, id) == Asked(op, <<id>>, Datum(op, program_ir.program, id))

NextProgram ==
    \/ Unasked /\ \E text \in TextsOf(ImplItems, MaxItems) : With(text)
    \/ \E trait_id \in 1..MaxItems, parameters \in Parameters :
           ImplsForTrait(trait_id, parameters)
    \/ \E auto_trait_id, adt_id \in 1..MaxItems :
           ImplProvidedFor(auto_trait_id, adt_id)
    \/ \E op \in Lookups, id \in 1..MaxItems : Lookup(op, id)

SpecProgram == Init /\ [][NextProgram]_vars

----------------------------------------------------------------------------
(* ChalkDatabase::solve and solve_multiple (db.rs): both take the handle's *)
(* solver, an Arc<Mutex<Solver>>, lock it and call the solver through the  *)
(* guard in one statement; the guard is dropped when the statement ends.   *)

\* the calls that go through the solver's lock
SolveOps == {"solve", "solve_multiple"}

\* the threads that are inside Solver::solve or Solver::solve_multiple
Inside(s) == {t \in 1..MaxThreads : s.at[t] = "inside"}

\* a lock that is handed out while another thread holds it
available_always(s) == TRUE

\* Mutex::lock blocks the calling thread until nobody holds the lock
available(s) == s.lock = 0

\* the thread is in a new place
Moved(s, t, place, op) ==
    [s EXCEPT !.at = [@ EXCEPT ![t] = place], !.op = [@ EXCEPT ![t] = op]]

\* let solver = self.solver(): a thread enters solve or solve_multiple and
\* holds the handle's solver
SolveCalled(t, op) ==
    /\ solver.at[t] = "out"
    /\ solver.calls < MaxSolves
    /\ solver' = [Moved(solver, t, "locking", op) EXCEPT !.calls = @ + 1]
    /\ UNCHANGED <<program_text, tls, answer, unify, values, kinds, max_universe,
                   snapshots, taken, last>>

\* solver.lock().unwrap(): the thread gets the lock when it is free; when a
\* solve has panicked under the lock the mutex is poisoned, lock() returns
\* an Err that unwrap turns into a panic, and the guard inside the Err is
\* dropped again
Locked(t) ==
    /\ solver.at[t] = "locking"
    /\ available(solver)
    /\ solver' = IF solver.poisoned
                 THEN Moved(solver, t, "panicked", solver.op[t])
                 ELSE [Moved(solver, t, "inside", solver.op[t]) EXCEPT !.lock = t]
    /\ UNCHANGED <<program_text, tls, answer, unify, values, kinds, max_universe,
                   snapshots, taken, last>>

\* the solver returns its solution: the statement ends, the guard is
\* dropped, and the call returns
SolveReturned(t) ==
    /\ solver.at[t] = "inside"
    /\ solver' = [Moved(solver, t, "out", "none") EXCEPT !.lock = 0]
    /\ UNCHANGED <<program_text, tls, answer, unify, values, kinds, max_universe,
                   snapshots, taken, last>>

\* the solver panics (a lookup in a program that does not lower, for
\* one): the unwinding drops the guard, which poisons the mutex
SolvePanicked(t) ==
    /\ solver.at[t] = "inside"
    /\ solver' = [Moved(solver, t, "panicked", solver.op[t])
                      EXCEPT !.lock = 0, !.poisoned = TRUE]
    /\ UNCHANGED <<program_text, tls, answer, unify, values, kinds, max_universe,
                   snapshots, taken, last>>

NextSolver ==
    \/ \E t \in 1..MaxThreads, op \in SolveOps : SolveCalled(t, op)
    \/ \E t \in 1..MaxThreads : Locked(t)
    \/ \E t \in 1..MaxThreads : SolveReturned(t)
    \/ \E t \in 1..MaxThreads : SolvePanicked(t)

SpecSolver == Init /\ [][NextSolver]_vars

----------------------------------------------------------------------------
(* Claims about the program database.                                      *)

\* the impls of the program whose trait ref has trait_id and whose
\* substitution could match the parameters
MatchingImpls(program, trait_id, parameters) ==
    {id \in DOMAIN program.impl_data :
        /\ program.impl_data[id].trait_ref.trait_id = trait_id
        /\ Len(program.impl_data[id].trait_ref.substitution) = Len(parameters)
        /\ could_match(parameters, program.impl_data[id].trait_ref.substitution)}

\* the impls of trait_id all have as many parameters as were asked for
SameArity(program, trait_id, parameters) ==
    \A id \in DOMAIN program.impl_data :
        program.impl_data[id].trait_ref.trait_id = trait_id
            => Len(program.impl_data[id].trait_ref.substitution) = Len(parameters)

WrittenImpls(text, trait_id, adt_id) ==
    {i \in 1..Len(text) :
        /\ text[i].item = "impl"
        /\ trait_id \in Declared(text, "trait", text[i].trait)
        /\ adt_id \in Declared(text, "struct", text[i].self)}

\* C22: impl_provided_for(auto_trait_id, adt_id) is true iff the program
\* has an impl of the trait auto_trait_id whose self type is the ADT adt_id,
\* and a negative impl counts like a positive one
C22_ImplProvidedFor ==
    (answer.op = "impl_provided_for" /\ program_ir.ok)
    => /\ answer.res = "Ok"
       /\ answer.val = (WrittenImpls(program_text, answer.arg[1], answer.arg[2]) # {})

\* the answer is true for an ADT whose only impl of the trait is negative
C22_Witness ==
    /\ answer.op = "impl_provided_for" /\ program_ir.ok
    /\ answer.val = TRUE
    /\ \A i \in WrittenImpls(program_text, answer.arg[1], answer.arg[2]) :
           ~program_text[i].flag

\* C25: the lookups of the program database are total: asked on a program
\* that lowered, with any identifier, each returns a datum and none aborts
C25_LookupsTotal ==
    (answer.op \in Lookups /\ program_ir.ok) => answer.res = "Ok"

----------------------------------------------------------------------------
(* Writing a program back to surface syntax (tests/display).               *)

\* the name a type is written with: the name of its ADT or opaque type,
\* T for the parameter of an impl
write_ty(program, ty) ==
    IF ty.k = "BoundVar" THEN "T"
    ELSE IF ty.k = "Apply" THEN program.adt_kinds[ty.id].name
    ELSE program.opaque_ty_kinds[ty.id].name

\* write_items on one identifier: the item that declares it, written from
\* its datum
write_item(program, id) ==
    IF id \in DOMAIN program.adt_data
    THEN StructDefn(program.adt_kinds[id].name,
                    IF program.adt_data[id].fields = <<>> THEN ""
                    ELSE write_ty(program, program.adt_data[id].fields[1]))
    ELSE IF id \in DOMAIN program.trait_data
    THEN TraitDefn(program.trait_kinds[id].name, program.trait_data[id].auto,
                   IF program.trait_data[id].where_clauses = <<>> THEN ""
                   ELSE program.trait_kinds[
                            program.trait_data[id].where_clauses[1].trait_id].name)
    ELSE IF id \in DOMAIN program.impl_data
    THEN Impl(program.trait_kinds[program.impl_data[id].trait_ref.trait_id].name,
              write_ty(program, program.impl_data[id].trait_ref.substitution[1]),
              program.impl_data[id].positive)
    ELSE OpaqueTyDefn(program.opaque_ty_kinds[id].name,
                      program.trait_kinds[
                          program.opaque_ty_data[id].bounds[1].trait_id].name,
                      write_ty(program, program.hidden_opaque_types[id]))

\* write_items: the items of the identifiers, in their order
write_items(program, ids) == [i \in 1..Len(ids) |-> write_item(program, ids[i])]

\* write_program that writes the traits before the ADTs
write_program_traits_first(program) ==
    write_items(program,
        keys(program.trait_data) \o keys(program.adt_data)
            \o keys(program.impl_data) \o keys(program.opaque_ty_data))

\* write_program: the ADTs, then the traits, then the impls, then the
\* opaque types, each in the order of their identifiers
write_program(program) ==
    write_items(program,
        keys(program.adt_data) \o keys(program.trait_data)
            \o keys(program.impl_data) \o keys(program.opaque_ty_data))

\* reparse_into_different_test: lower both texts, write the original
\* program, lower what was written and panic unless it is the target program
reparse_into_different_test(text, target_text) ==
    IF ~lower(text).ok \/ ~lower(target_text).ok THEN Found("panic", <<>>)
    ELSE LET output_text == write_program(lower(text).program)
         IN  IF ~lower(output_text).ok THEN Found("panic", output_text)
             ELSE IF lower(output_text).program # lower(target_text).program
             THEN Found("panic", output_text)
             ELSE Found("Ok", output_text)

\* reparse_test
reparse_test(text) == reparse_into_different_test(text, text)

\* the items of the programs that are written back
DisplayItems ==
    {StructDefn("Foo", ""), StructDefn("Baz", "Foo"),
     TraitDefn("Bar", FALSE, ""), TraitDefn("Send", TRUE, "Bar"),
     Impl("Bar", "Foo", TRUE), Impl("Send", "T", FALSE),
     OpaqueTyDefn("Op", "Bar", "Foo")}

\* a reparse test of the text of the database
ReparseTest ==
    /\ answer.op = "none"
    /\ answer' = [op |-> "reparse_test", arg |-> program_text,
                  res |-> reparse_test(program_text).res,
                  val |-> reparse_test(program_text).val]
    /\ UNCHANGED <<program_text, tls, solver, unify, values, kinds, max_universe,
                   snapshots, taken, last>>

NextDisplay ==
    \/ Unasked /\ \E text \in TextsOf(DisplayItems, MaxItems) : With(text)
    \/ ReparseTest

SpecDisplay == Init /\ [][NextDisplay]_vars

\* the text lists its structs, then its traits, then its impls, then its
\* opaque types
InWriterOrder(text) ==
    LET rank(it) == CASE it.item = "struct" -> 1 [] it.item = "trait" -> 2
                      [] it.item = "impl" -> 3 [] it.item = "opaque" -> 4
    IN  \A i, j \in 1..Len(text) : i < j => rank(text[i]) <= rank(text[j])

----------------------------------------------------------------------------
(* The identifier collector of the logging database.                       *)

\* RecordedItemId::Adt, ::Trait, ::Impl and ::OpaqueTy
RecordedItemId(kind, id) == [kind |-> kind, id |-> id]

\* the recorded identifier of an item of the program
RecordedItem(program, id) ==
    IF id \in DOMAIN program.adt_data THEN RecordedItemId("Adt", id)
    ELSE IF id \in DOMAIN program.trait_data THEN RecordedItemId("Trait", id)
    ELSE IF id \in DOMAIN program.impl_data THEN RecordedItemId("Impl", id)
    ELSE RecordedItemId("OpaqueTy", id)

\* IdCollector::visit_ty: the ADT of an application is recorded, an opaque
\* alias is todo!(), a bound variable records nothing
visit_ty(ty) ==
    IF ty.k = "Apply" THEN Found("Ok", {RecordedItemId("Adt", ty.id)})
    ELSE IF ty.k = "Alias" THEN Found("panic", {})
    ELSE Found("Ok", {})

\* IdCollector::visit_where_clause on WhereClause::Implemented
visit_where_clause(where_clause) ==
    Found("Ok", {RecordedItemId("Trait", where_clause.trait_id)})

\* visit_with on a sequence of types or of where clauses
visit_with(visit(_), seq) ==
    IF \E i \in 1..Len(seq) : visit(seq[i]).res = "panic" THEN Found("panic", {})
    ELSE Found("Ok", UNION {visit(seq[i]).val : i \in 1..Len(seq)})

\* what the loop of collect_unrecorded_ids visits for one identifier: the
\* fields of an ADT, the where clauses of a trait, the bounds of an opaque
\* type, the parameters of the trait ref of an impl
visit_datum(program, id) ==
    CASE id.kind = "Adt" -> visit_with(visit_ty, program.adt_data[id.id].fields)
      [] id.kind = "Trait" ->
            visit_with(visit_where_clause, program.trait_data[id.id].where_clauses)
      [] id.kind = "OpaqueTy" ->
            visit_with(visit_where_clause, program.opaque_ty_data[id.id].bounds)
      [] id.kind = "Impl" ->
            visit_with(visit_ty, program.impl_data[id.id].trait_ref.substitution)

\* collect_unrecorded_ids: what visiting the data of the identifiers found,
\* without the identifiers themselves
collect_unrecorded_ids(program, identifiers) ==
    IF \E id \in identifiers : visit_datum(program, id).res = "panic"
    THEN Found("panic", {})
    ELSE Found("Ok",
               UNION {visit_datum(program, id).val : id \in identifiers}
                   \ identifiers)

\* the items of the programs whose identifiers are collected
CollectorItems ==
    {StructDefn("Foo", ""), StructDefn("S", "Op"),
     TraitDefn("Bar", FALSE, ""), TraitDefn("Child", FALSE, "Bar"),
     TraitDefn("Grand", FALSE, "Child"),
     Impl("Bar", "Foo", TRUE), OpaqueTyDefn("Op", "Bar", "Foo")}

\* LoggingRustIrDatabase: the identifiers recorded so far are collected for
CollectUnrecordedIds(ids) ==
    /\ program_ir.ok
    /\ Asked("collect_unrecorded_ids", ids,
             collect_unrecorded_ids(program_ir.program,
                 {RecordedItem(program_ir.program, id) : id \in ids}))

NextCollector ==
    \/ Unasked /\ \E text \in TextsOf(CollectorItems, MaxItems) : With(text)
    \/ \E ids \in SUBSET (1..Len(program_text)) : CollectUnrecordedIds(ids)

SpecCollector == Init /\ [][NextCollector]_vars

\* the items that the text of item i names: the type of a field, the trait
\* of a where clause, the trait and the self type of an impl, the bound and
\* the hidden type of an opaque type
NamedIn(text, i) ==
    {j \in 1..Len(text) :
        /\ text[j].item # "impl"
        /\ text[j].name \in {text[i].ref, text[i].trait, text[i].self}}

\* C26: collect_unrecorded_ids(db, ids) returns exactly the identifiers
\* that the definitions of the items in ids name, without ids itself
C26_CollectsDirectReferences ==
    answer.op = "collect_unrecorded_ids"
    => /\ answer.res = "Ok"
       /\ {id.id : id \in answer.val}
            = UNION {NamedIn(program_text, i) : i \in answer.arg} \ answer.arg

----------------------------------------------------------------------------
(* The thread-local debug context.  tls.program is the active program when *)
(* tls.set; tls.saved holds, for every call of set_current_program that    *)
(* is running, the program it installed and the context it found;          *)
(* tls.left is the program of the call that ended last.                    *)

MaxThunks == 3        \* calls of set_current_program inside one another

\* the programs that are made the debug context
ContextPrograms ==
    {<<StructDefn("Foo", "")>>, <<TraitDefn("Bar", FALSE, "")>>,
     <<StructDefn("Foo", ""), TraitDefn("Bar", FALSE, "")>>}

\* an end of call that clears the context instead of restoring it
Cleared(frame) == [program |-> <<>>, set |-> FALSE]

\* the context a call leaves behind when it ends: the one it found
Restored(frame) == [program |-> frame.previous.program, set |-> frame.previous.set]

\* set_current_program(&program, thunk), up to the start of thunk: the
\* context is saved and program is made the context
SetCurrentProgram(program) ==
    /\ ~tls.unwinding
    /\ Len(tls.saved) < MaxThunks
    /\ tls' = [tls EXCEPT
                 !.program = program, !.set = TRUE,
                 !.saved = Append(@, [installed |-> program,
                                      previous |-> [program |-> tls.program,
                                                    set |-> tls.set]])]
    /\ UNCHANGED <<program_text, answer, solver, unify, values, kinds, max_universe,
                   snapshots, taken, last>>

\* the end of the innermost call, by return or by unwinding
Leave(unwinding) ==
    LET frame == tls.saved[Len(tls.saved)]
    IN  /\ tls.saved # <<>>
        /\ tls' = [tls EXCEPT
                     !.program = Restored(frame).program,
                     !.set = Restored(frame).set,
                     !.saved = SubSeq(@, 1, Len(@) - 1),
                     !.unwinding = unwinding,
                     !.left = frame.installed]
        /\ UNCHANGED <<program_text, answer, solver, unify, values, kinds, max_universe,
                       snapshots, taken, last>>

\* thunk returns: set_current_program returns its result
ThunkReturns == ~tls.unwinding /\ Leave(FALSE)

\* thunk panics, or a panic of an inner call unwinds through this one
ThunkUnwinds == Leave(TRUE)

\* catch_unwind in the thunk of an enclosing call, or in the test harness
Caught ==
    /\ tls.unwinding
    /\ tls' = [tls EXCEPT !.unwinding = FALSE]
    /\ UNCHANGED <<program_text, answer, solver, unify, values, kinds, max_universe,
                   snapshots, taken, last>>

NextTls ==
    \/ \E program \in ContextPrograms : SetCurrentProgram(program)
    \/ ThunkReturns
    \/ ThunkUnwinds
    \/ Caught

SpecTls == Init /\ [][NextTls]_vars

\* C23: the active debug context is the program of the innermost call of
\* set_current_program that is running, and none when no call is running:
\* a call restores the context it found when its thunk returns or unwinds,
\* and calls inside one another restore in the reverse of their order
C23_ContextWhileThunkRuns ==
    IF tls.saved = <<>> THEN ~tls.set
    ELSE /\ tls.set
         /\ tls.program = tls.saved[Len(tls.saved)].installed

\* an inner call with another program has unwound, and the context is again
\* the program of the call around it
C23_Witness ==
    /\ tls.unwinding
    /\ Len(tls.saved) = 1
    /\ tls.left # <<>>
    /\ tls.left # tls.saved[1].installed
    /\ tls.program = tls.saved[1].installed

----------------------------------------------------------------------------
(* Variables of different kinds, types of different shapes.                *)

\* ty as the table of r normalizes it
NormalizedIn(r, ty) ==
    IF normalize_shallow(Table(r.unify, r.values, r.kinds), ty) = NoneTy THEN ty
    ELSE normalize_shallow(Table(r.unify, r.values, r.kinds), ty)

\* r left the table as it is
Untouched(r) == r.unify = unify /\ r.values = values /\ r.kinds = kinds

\* r is what relating the unbound variables a and b under Invariant returned
VarVarInvariant(r, a, b) ==
    IF a.kind = b.kind
    THEN /\ r.res = "Ok" /\ r.goals = <<>>
         /\ unioned(r.unify, a.id, b.id)
         /\ IsUnbound(r.unify, a.id)
    ELSE IF "General" \in {a.kind, b.kind}
    THEN LET specific == IF a.kind = "General" THEN b ELSE a
         IN  /\ r.res = "Ok" /\ r.goals = <<>>
             /\ NormalizedIn(r, a) = specific
             /\ NormalizedIn(r, b) = specific
    ELSE r.res = "NoSolution" /\ Untouched(r)

\* r is what relating a and b under another variance returned: nothing but
\* the goal SubtypeGoal(sub, sup)
VarVarSubtype(r, sub, sup) ==
    /\ r.res = "Ok"
    /\ Untouched(r)
    /\ r.goals = <<Goal("SubtypeGoal", sub, sup)>>

\* C27: relating two unbound type variables under Invariant unions them
\* when their kinds are equal, binds the General one to the other when
\* exactly one is General, so that both normalize to the variable of the
\* specific kind, and returns NoSolution for an Integer against a Float
\* variable; under Covariant and Contravariant it makes no union and pushes
\* the one goal SubtypeGoal(a, b), respectively SubtypeGoal(b, a)
C27_VarVarKinds ==
    \A a \in VarTys, b \in VarTys :
        (IsUnbound(unify, a.id) /\ IsUnbound(unify, b.id)
            /\ ~unioned(unify, a.id, b.id))
        => /\ VarVarInvariant(relate_ty_ty(UnifierNew(table), "Invariant", a, b), a, b)
           /\ VarVarSubtype(relate_ty_ty(UnifierNew(table), "Covariant", a, b), a, b)
           /\ VarVarSubtype(relate_ty_ty(UnifierNew(table), "Contravariant", a, b), b, a)

\* a relate has bound a General variable to an unbound Float variable
C27_Witness ==
    /\ last.op = "relate" /\ last.res = "Ok" /\ "touched" \in last.note
    /\ \E g, s \in 1..Len(unify) :
          /\ kinds[g] = "General" /\ kinds[s] = "Float"
          /\ unify[g].value.bound
          /\ values[unify[g].value.val] = InferenceVar(s, "Float")
          /\ IsUnbound(unify, s)

\* the kind of a variable admits the type: General admits every type,
\* Integer admits i32, Float admits f32
Admits(kind, ty) ==
    \/ kind = "General"
    \/ kind = "Integer" /\ ty = Apply("I32", <<>>)
    \/ kind = "Float" /\ ty = Apply("F32", <<>>)

\* r is what relating a variable with a type that its kind does not admit
\* returned: NoSolution, the table as it was
Refused(r) == r.res = "NoSolution" /\ Untouched(r)

\* C28: relating an unbound variable of kind k with a type t that is no
\* variable and no alias, in either order, is relate_var_ty on the two when
\* k is General, or Integer with t an integer type, or Float with t a float
\* type; every other combination returns NoSolution and leaves the table
\* as it was
C28_KindAdmitsType ==
    \A variance \in Variances, v \in VarTys, t \in ShapeTys :
        IsUnbound(unify, v.id) =>
            IF Admits(v.kind, t)
            THEN /\ relate_ty_ty(UnifierNew(table), variance, v, t)
                      = relate_var_ty(UnifierNew(table), variance, v.id, t)
                 /\ relate_ty_ty(UnifierNew(table), variance, t, v)
                      = relate_var_ty(UnifierNew(table), variance, v.id, t)
            ELSE /\ Refused(relate_ty_ty(UnifierNew(table), variance, v, t))
                 /\ Refused(relate_ty_ty(UnifierNew(table), variance, t, v))

\* a relate returned NoSolution and left the table as it was, the one
\* variable of the table being an unbound Integer variable, with
\* placeholders, dyn types and fn types at hand
C28_Witness ==
    /\ last.op = "relate" /\ last.res = "NoSolution" /\ "touched" \notin last.note
    /\ Len(unify) = 1 /\ kinds[1] = "Integer" /\ IsUnbound(unify, 1)
    /\ \E t \in ShapeTys : t.k = "Dyn"

\* a and b, neither a variable nor an alias, differ in shape, in the name
\* of the applied type, in abi, safety or variadic of the fn pointer, or in
\* the universe or the slot of the placeholder
Mismatch(a, b) ==
    \/ a.k # b.k
    \/ a.k = "Apply" /\ a.name # b.name
    \/ a.k = "Function" /\ a.name # b.name
    \/ a.k = "Placeholder" /\ (a.ui # b.ui \/ a.id # b.id)

\* C29: relating two types that mismatch in structure returns NoSolution:
\* an applied type, a dyn type or a placeholder against a fn pointer, an
\* applied type against a placeholder or a dyn type, a dyn type against a
\* placeholder, two applied types of different names, two fn pointers that
\* differ in abi, safety or variadic, two placeholders that differ in
\* universe or slot
C29_MismatchNoSolution ==
    \A variance \in Variances, a \in ShapeTys, b \in ShapeTys :
        Mismatch(a, b) =>
            relate_ty_ty(UnifierNew(table), variance, a, b).res = "NoSolution"

\* a relate on a table without variables returned NoSolution, with
\* placeholders and dyn types at hand
C29_Witness ==
    /\ last.op = "relate" /\ last.res = "NoSolution"
    /\ Len(unify) = 0
    /\ max_universe = MaxUniverse

----------------------------------------------------------------------------
(* Placeholders out of scope.                                              *)

\* r is what binding the variable v returned: NoSolution, v still unbound
LeftUnbound(r, v) == r.res = "NoSolution" /\ IsUnbound(r.unify, v.id)

\* C30: binding an unbound variable v to a term that holds, once bound
\* variables are followed, a type placeholder of a universe greater than
\* max_universe, the universe the occurs check is run with, returns
\* NoSolution and leaves v unbound
C30_UnscopedPlaceholderFails ==
    \A variance \in Variances, v \in VarTys, t \in UnscopedTys :
        IsUnbound(unify, v.id) =>
            LeftUnbound(relate_var_ty(UnifierNew(table), variance, v.id, t), v)

\* a relate of a General variable with such a term returned NoSolution and
\* the variable is unbound
C30_Witness ==
    /\ last.op = "relate" /\ last.res = "NoSolution" /\ "unscoped" \in last.note
    /\ Len(unify) = 1 /\ kinds[1] = "General" /\ IsUnbound(unify, 1)

----------------------------------------------------------------------------
(* Lifetime placeholders out of scope.                                     *)

\* r is what binding the variable v to &'p T returned: Ok; with p beyond
\* max_universe the goals 'x: 'p and 'p: 'x for the fresh variable 'x, which
\* is unbound in max_universe and takes the place of p in the value of v;
\* with p within max_universe no goal and p in the value of v
PlaceholderReplaced(r, v, p) ==
    LET value == NormalizedIn(r, v)
        fresh == LifetimeVar(Len(unify) + 1)
        tbl == Table(r.unify, r.values, r.kinds)
    IN  /\ r.res = "Ok"
        /\ value.k = "Apply" /\ value.name = "Ref"
        /\ IF max_universe < p.ui
           THEN /\ r.goals = <<Goal("LifetimeOutlives", fresh, p),
                               Goal("LifetimeOutlives", p, fresh)>>
                /\ value.args[1].k = "LifetimeVar"
                /\ unioned(r.unify, value.args[1].id, fresh.id)
                /\ Probe(tbl, fresh.id) =
                       [bound |-> FALSE, ui |-> max_universe, ty |-> NoneTy]
           ELSE /\ r.goals = <<>>
                /\ value.args[1].k = "LifetimeVar"
                /\ normalize_lifetime_shallow(tbl, value.args[1]) = p

\* C31: binding an unbound variable to &'p T, where 'p is a lifetime
\* placeholder, succeeds under every variance; when the universe of 'p is
\* greater than max_universe, the universe the occurs check is run with, a
\* fresh lifetime variable of universe max_universe stands for 'p in the
\* bound value and the two goals fresh: 'p and 'p: fresh are pushed; when it
\* is not, 'p is kept and no goal is pushed (in tables with room for the two
\* lifetime variables the call creates)
C31_PlaceholderLifetimeReplaced ==
    \A variance \in Variances, v \in VarTys, t \in PlaceholderRefTys :
        IsUnbound(unify, v.id) /\ v.kind = "General" /\ Len(unify) + 2 <= MaxVars =>
            PlaceholderReplaced(
                relate_var_ty(UnifierNew(table), variance, v.id, t),
                v, t.args[1])

\* a relate of the only variable with &'p T, 'p beyond max_universe,
\* returned Ok with goals and the two lifetime variables it created
C31_Witness ==
    /\ last.op = "relate" /\ last.res = "Ok" /\ "goals" \in last.note
    /\ Len(unify) = 3 /\ kinds[2] = "Lifetime" /\ kinds[3] = "Lifetime"
    /\ ~IsUnbound(unify, 1)
    /\ Normalized(InferenceVar(1, kinds[1])).name = "Ref"

----------------------------------------------------------------------------
(* Acyclic bindings.                                                       *)

\* the variables met in ty when the value of every bound variable is
\* followed, through at most fuel bound variables in a row
RECURSIVE VarsThrough(_, _, _)
VarsThrough(tbl, ty, fuel) ==
    IF ty.k \in {"InferenceVar", "LifetimeVar"}
       \/ (ty.k = "Const" /\ ty.kind = "InferenceVar")
    THEN {ty.id} \cup
         (IF probe_value(tbl.unify, ty.id).bound /\ fuel > 0
          THEN VarsThrough(tbl, tbl.values[probe_value(tbl.unify, ty.id).val],
                           fuel - 1)
          ELSE {})
    ELSE UNION {VarsThrough(tbl, ty.args[i], fuel) : i \in 1..Len(ty.args)}

\* following the value of a bound variable never leads to a variable of
\* its own class
Acyclic(tbl) ==
    \A v \in 1..Len(tbl.unify) :
        probe_value(tbl.unify, v).bound =>
            \A w \in VarsThrough(tbl, tbl.values[probe_value(tbl.unify, v).val],
                                  Len(tbl.unify)) :
                ~unioned(tbl.unify, v, w)

\* the number of bound variables in a row that normalize_shallow goes
\* through from ty before it returns None, up to fuel
RECURSIVE Hops(_, _, _)
Hops(tbl, ty, fuel) ==
    IF fuel = 0 \/ ty.k # "InferenceVar" THEN 0
    ELSE IF ~probe_value(tbl.unify, ty.id).bound THEN 0
    ELSE 1 + Hops(tbl, tbl.values[probe_value(tbl.unify, ty.id).val], fuel - 1)

\* C35: as long as no relate has panicked, following the values of bound
\* variables from any variable never leads to a variable of its own class,
\* and the normalization of a variable ends after fewer steps than there
\* are variables
C35_AcyclicBindings ==
    last.res # "panic" =>
        /\ Acyclic(table)
        /\ \A v \in VarTys : Hops(table, v, Len(unify) + 1) <= Len(unify)

\* a relate returned Ok, and a general variable is bound to an integer
\* variable that is bound to i32, beside a variable bound to a pair
C35_Witness ==
    /\ last.op = "relate" /\ last.res = "Ok"
    /\ \E v \in VarTys : Chained(table, v)
    /\ \E v \in VarTys : Normalized(v).k = "Apply" /\ Normalized(v).name = "Pair"

----------------------------------------------------------------------------
(* Promotion.                                                              *)

\* r is what binding a variable to t with the universe ui returned: when it
\* is Ok, every variable that is unbound before and after and is met in t
\* (through the values of bound variables) is in ui if it was beyond ui and
\* where it was if it was not
Promoted(r, ui, t) ==
    r.res = "Ok" =>
        \A w \in VarsThrough(r, t, Len(r.unify)) :
            IsUnbound(unify, w) /\ IsUnbound(r.unify, w) =>
                probe_value(r.unify, w).ui = Min(ui, probe_value(unify, w).ui)

\* C32: after a successful bind of an unbound variable v to t, where the
\* universe of the occurs check is that of v for unify_var_apply and
\* max_universe for relate_var_ty, every unbound variable met in t through
\* the values of bound variables is in a universe no greater than that one:
\* lowered to exactly it if it was beyond, left where it was if not
C32_Promotion ==
    \A v \in VarTys, t \in PairTys :
        IsUnbound(unify, v.id) =>
            /\ Promoted(unify_var_apply(UnifierNew(table), v.id, t),
                        probe_value(unify, v.id).ui, t)
            /\ \A variance \in Variances :
                  Promoted(relate_var_ty(UnifierNew(table), variance, v.id, t),
                           max_universe, t)

\* unify_ty_ty returned Ok and lowered the universe of a variable without
\* unioning the two variables of the table: ?1 of universe 0 with
\* Pair<?2, _>, ?2 of universe 1
C32_Witness ==
    /\ last.op = "unify_ty_ty" /\ last.res = "Ok" /\ "lowered" \in last.note
    /\ Len(unify) = 2 /\ ~unioned(unify, 1, 2)
    /\ IsUnbound(unify, 1) /\ IsUnbound(unify, 2)
    /\ probe_value(unify, 1).ui = 0 /\ probe_value(unify, 2).ui = 0

----------------------------------------------------------------------------
(* Bound variables outside a binder.                                       *)

\* r is what relating a and b, one of them a bound variable, returned: a
\* panic
Panicked(r) == r.res = "panic"

\* r is what relating a and b, one of them a bound variable, returned: a
\* panic, or for two consts NoSolution when relating their types (typed)
\* had none
PanickedOrIllTyped(r, typed, a) ==
    IF a.k = "Const" /\ typed.res = "NoSolution"
    THEN r.res = "NoSolution"
    ELSE r.res = "panic"

\* the type of a const once the const is normalized, a type as it is
TypeOf(t) ==
    IF t.k # "Const" THEN t
    ELSE IF normalize_const_shallow(table, t) = NoneTy THEN t.args[1]
    ELSE normalize_const_shallow(table, t).args[1]

\* C33 (as stated): relating two types, two lifetimes or two consts of which
\* one is a bound variable panics; it returns neither NoSolution nor Ok
C33_BoundVarPanics ==
    \A variance \in Variances, ab \in BoundVarInputs :
        Panicked(zip_with(UnifierNew(table), variance, ab[1], ab[2]))

\* C33 (amended): relating two types or two lifetimes of which one is a
\* bound variable panics; relating two consts of which one is a bound
\* variable returns NoSolution when relating their types has no solution
\* and panics otherwise; Ok is never returned
C33_BoundVarPanicsOrIllTyped ==
    \A variance \in Variances, ab \in BoundVarInputs :
        PanickedOrIllTyped(
            zip_with(UnifierNew(table), variance, ab[1], ab[2]),
            relate_ty_ty(UnifierNew(table), variance,
                         TypeOf(ab[1]), TypeOf(ab[2])),
            ab[1])

\* a relate with a bound variable panicked after a universe was created
C33_Witness ==
    /\ last.op = "relate" /\ last.res = "panic"
    /\ "bound variable" \in last.note
    /\ max_universe = 1

----------------------------------------------------------------------------
(* The panics of unify_var_apply and occurs_check_arg.                     *)

\* r is what unify_ty_ty returned: neither of the two panics
NeverOnBoundVar(r) == r.res \notin {InvokedOnBoundVar, ExpectedNormalized}

\* C34: in every reachable table, unify_ty_ty on variables (bound or not),
\* scalars, pairs and the projection reaches unify_var_apply with an
\* unbound variable only and the Var case of occurs_check_arg with an
\* unbound variable only: neither "unify_var_apply invoked on bound var"
\* nor "expected arg to be normalized" is reached
C34_NoPanicOnBoundVar ==
    \A a \in TableTys, b \in TableTys :
        NeverOnBoundVar(unify_ty_ty(UnifierNew(table), a, b))

\* unify_ty_ty returned Ok on a bound variable, which it normalized, with
\* another variable of the table still unbound
C34_Witness ==
    /\ last.op = "unify_ty_ty" /\ last.res = "Ok" /\ "normalized" \in last.note
    /\ \E v \in 1..Len(unify) : IsUnbound(unify, v)
    /\ \E v \in 1..Len(unify) : ~IsUnbound(unify, v)

----------------------------------------------------------------------------
(* Snapshot balance.                                                       *)

\* C36: a call of relate or of the unifier of table.rs (Unifier::new, then
\* unify_ty_ty) that returns, with Ok or with Err, leaves as many snapshots
\* open as there were before it
C36_SnapshotBalance ==
    [][last'.op \in {"relate", "unify_ty_ty"} /\ last'.res # "panic"
          => Len(snapshots') = Len(snapshots)]_vars

----------------------------------------------------------------------------
(* Scope of const variables.                                               *)

\* r is what relating the unbound const variable v, of universe ui, with a
\* const returned: when it is Ok, v is not bound to a const placeholder of a
\* universe beyond ui
ConstInScope(r, v, ui) ==
    r.res = "Ok" =>
        \/ normalize_const_shallow(r, v) = NoneTy
        \/ normalize_const_shallow(r, v).kind # "Placeholder"
        \/ normalize_const_shallow(r, v).ui <= ui

\* C37: after a successful relate of an unbound const variable with a const
\* placeholder, on either side and under every variance, the variable is
\* not bound to a placeholder of a universe greater than the universe it
\* was in
C37_ConstScope ==
    \A variance \in Variances, v \in ConstTys, p \in ConstPlaceholders :
        v.kind = "InferenceVar" /\ IsUnbound(unify, v.id) =>
            /\ ConstInScope(relate_const_const(UnifierNew(table), variance, v, p),
                            v, probe_value(unify, v.id).ui)
            /\ ConstInScope(relate_const_const(UnifierNew(table), variance, p, v),
                            v, probe_value(unify, v.id).ui)

----------------------------------------------------------------------------
(* Lifetimes always relate.                                                *)

\* a lifetime in the table: the value of a bound variable, else itself
NormalizedLifetime(l) ==
    IF normalize_lifetime_shallow(table, l) = NoneTy THEN l
    ELSE normalize_lifetime_shallow(table, l)

\* r is what relating the lifetimes a and b returned, na and nb what a and
\* b are in the table: Ok, with outlives goals only; for two placeholders
\* the table as it was, with goals if they differ and none if they do not;
\* with a variable, a table that changed, goals, or the same variable twice
LifetimesRelated(r, na, nb) ==
    /\ r.res = "Ok"
    /\ \A i \in 1..Len(r.goals) : r.goals[i].g = "LifetimeOutlives"
    /\ IF na.k = "LifetimePlaceholder" /\ nb.k = "LifetimePlaceholder"
       THEN Untouched(r) /\ (r.goals = <<>>) = (na = nb)
       ELSE ~Untouched(r) \/ r.goals # <<>> \/ unioned(unify, na.id, nb.id)

\* C38: relate_lifetime_lifetime returns Ok for every two lifetimes that are
\* variables (bound or not) or placeholders, under every variance: it
\* unions or binds a variable or pushes LifetimeOutlives goals; two
\* different placeholders give goals, the same placeholder twice gives none
C38_LifetimesAlwaysRelate ==
    \A variance \in Variances :
      \A a \in LifetimesOfTwoSlots, b \in LifetimesOfTwoSlots :
        LifetimesRelated(
            relate_lifetime_lifetime(UnifierNew(table), variance, a, b),
            NormalizedLifetime(a), NormalizedLifetime(b))

\* a relate of two lifetimes returned Ok with goals and left the table
\* alone while every variable of the table is bound: two different
\* placeholders were related, as they are or as values of variables
C38_Witness ==
    /\ last.op = "relate" /\ last.res = "Ok"
    /\ "goals" \in last.note /\ "touched" \notin last.note
    /\ max_universe = MaxUniverse
    /\ \A v \in 1..Len(unify) : ~IsUnbound(unify, v)

----------------------------------------------------------------------------
(* The target of relate_var_ty.                                            *)

\* r is what relate_var_ty returned: no unwrap has panicked
Unwrapped(r) == r.res # "panic"

\* relate_var_ty entered with an unbound variable reaches its final
\* unify_var_value with the variable still unbound
TargetStaysUnbound ==
    \A variance \in Variances, v \in VarTys, t \in ScalarTys \cup PairTys :
        IsUnbound(unify, v.id) =>
            Unwrapped(relate_var_ty(UnifierNew(table), variance, v.id, t))

\* C40: whenever relate_ty_ty hands a variable and a type to relate_var_ty,
\* that is the two as normalize_shallow leaves them, with the type admitted
\* by the kind of the variable, the variable is unbound when the final
\* unify_var_value runs, and the unwrap does not panic
C40_TargetUnbound ==
    \A variance \in Variances, v \in VarTys, t \in ScalarTys \cup PairTys :
        Normalized(v).k = "InferenceVar" /\ kind_unifies(Normalized(v).kind, t) =>
            Unwrapped(relate_var_ty(UnifierNew(table), variance, Normalized(v).id, t))

----------------------------------------------------------------------------
(* Claims about the solver's lock.                                         *)

\* every thread that left solve or solve_multiple by returning has let the
\* lock go
LockFollowsSolve(s) ==
    /\ Cardinality(Inside(s)) <= 1
    /\ \A t \in 1..MaxThreads : (s.lock = t) <=> (s.at[t] = "inside")
    /\ s.lock \in 0..MaxThreads

\* C39: on one handle at most one thread is inside the solver, whether it
\* came through solve or through solve_multiple; the thread inside is the
\* one that holds the lock, and the lock is free whenever no thread is
\* inside, so that a thread which waits for it after a call has returned
\* can take it.
C39_SolverExclusive ==
    /\ LockFollowsSolve(solver)
    /\ (\E t \in 1..MaxThreads : solver.at[t] = "locking")
           /\ Inside(solver) = {} => available(solver)

\* one call has returned, and a later solve on another thread is inside
\* the solver while a solve_multiple waits for the lock
C39_Witness ==
    /\ solver.calls = MaxSolves
    /\ \E t, w \in 1..MaxThreads :
           /\ solver.at[t] = "inside" /\ solver.op[t] = "solve"
           /\ solver.at[w] = "locking" /\ solver.op[w] = "solve_multiple"
    /\ ~solver.poisoned

====
